---- MODULE Spec2Model ----
(***************************************************************************)
(* Load & sizing calculation core of the HVAC application.                 *)
(*                                                                         *)
(* The engines are pure numeric functions.  JavaScript numbers are         *)
(* modelled as exact rationals <<n, d>> (d > 0, lowest terms); the one     *)
(* non-finite values are NaN = <<0, 0>> and +-Infinity = <<+-1, 0>>, and the *)
(* JavaScript value undefined is <<>>.  Math.round of a finite number      *)
(* yields an integer, kept as a TLA+ integer.                              *)
(***************************************************************************)
EXTENDS Integers, Sequences, FiniteSets, TLC

(***************************************************************************)
(* Numbers                                                                 *)
(***************************************************************************)
Abs(x) == IF x < 0 THEN -x ELSE x

RECURSIVE GCD(_, _)
GCD(a, b) == IF b = 0 THEN a ELSE GCD(b, a % b)

\* the rational n/d in lowest terms with a positive denominator
Norm(n, d) ==
    LET g == GCD(Abs(n), Abs(d))
        s == IF d < 0 THEN -1 ELSE 1
    IN  <<s * (n \div g), s * (d \div g)>>

R(i) == <<i, 1>>
Dec(n, d) == Norm(n, d)

NaN == <<0, 0>>
Undefined == <<>>

RAdd(x, y) ==
    LET g == GCD(x[2], y[2])
    IN  Norm(x[1] * (y[2] \div g) + y[1] * (x[2] \div g), (x[2] \div g) * y[2])

RNeg(x) == <<-x[1], x[2]>>

RSub(x, y) == RAdd(x, RNeg(y))

RMul(x, y) ==
    LET g1 == GCD(Abs(x[1]), y[2])
        g2 == GCD(Abs(y[1]), x[2])
    IN  IF x[1] = 0 \/ y[1] = 0 THEN R(0)
        ELSE Norm((x[1] \div g1) * (y[1] \div g2), (x[2] \div g2) * (y[2] \div g1))

PosInf == <<1, 0>>
NegInf == <<-1, 0>>
IsFinite(x) == x[2] # 0

\* x / y with a finite y: x/0 is NaN for x = 0 and +-Infinity otherwise
RDiv(x, y) ==
    IF x = NaN THEN NaN
    ELSE IF y[1] = 0 THEN (IF x[1] = 0 THEN NaN ELSE IF x[1] > 0 THEN PosInf ELSE NegInf)
    ELSE IF ~IsFinite(x) THEN (IF y[1] > 0 THEN x ELSE RNeg(x))
    ELSE RMul(x, IF y[1] < 0 THEN <<-y[2], -y[1]>> ELSE <<y[2], y[1]>>)

\* x < y ; every comparison with NaN is false
RLt(x, y) ==
    IF IsFinite(x) /\ IsFinite(y) THEN RSub(x, y)[1] < 0
    ELSE IF x = NaN \/ y = NaN THEN FALSE
    ELSE (x = NegInf /\ y # NegInf) \/ (y = PosInf /\ x # PosInf)

RLe(x, y) == IF x = NaN \/ y = NaN THEN FALSE ELSE x = y \/ RLt(x, y)

RMax(x, y) == IF RLt(x, y) THEN y ELSE x

\* Math.round: the nearest integer, halves towards +infinity
Round(x) == (2 * x[1] + x[2]) \div (2 * x[2])

\* JavaScript truthiness of a number-or-undefined
Truthy(x) == x # Undefined /\ x # NaN /\ x[1] # 0

\* a || b on numbers
OrElse(a, b) == IF Truthy(a) THEN a ELSE b

(***************************************************************************)
(* Object field access: a missing property reads as undefined.             *)
(***************************************************************************)
Get(obj, k) == IF k \in DOMAIN obj THEN obj[k] ELSE Undefined

\* string-valued property; a missing one reads as the (falsy) empty string
GetStr(obj, k) == IF k \in DOMAIN obj THEN obj[k] ELSE ""

(***************************************************************************)
(* Module constants of services/engines/manualJEngine.ts                   *)
(***************************************************************************)
PSYCH ==
    [ LATENT_FACTOR         |-> Dec(68, 100),
      SENSIBLE_FACTOR       |-> Dec(11, 10),
      HUMIDITY_RATIO_INDOOR |-> R(65) ]

SOLAR_PEAK_GAINS ==
    [ b \in {30, 40, 50} |->
        CASE b = 30 -> [N |-> 37, NE |-> 114, E |-> 202, SE |-> 198, S |-> 110,
                        SW |-> 198, W |-> 202, NW |-> 114, Horizontal |-> 262]
          [] b = 40 -> [N |-> 39, NE |-> 108, E |-> 216, SE |-> 200, S |-> 106,
                        SW |-> 200, W |-> 216, NW |-> 108, Horizontal |-> 258]
          [] b = 50 -> [N |-> 39, NE |-> 100, E |-> 219, SE |-> 195, S |-> 104,
                        SW |-> 195, W |-> 219, NW |-> 100, Horizontal |-> 246] ]

calculateGrainsDiff(design) ==
    LET estimatedOutdoorGrains ==
            RSub(RMul(design.outdoorTempSummer, Dec(14, 10)), R(10))
    IN  RMax(R(0), RSub(estimatedOutdoorGrains, PSYCH.HUMIDITY_RATIO_INDOOR))

\* The rows of SOLAR_PEAK_GAINS are object literals, so table[orient] also
\* finds the members every object inherits from Object.prototype; such a
\* member is a function or an object, which is truthy and is returned as it is.
ObjectPrototypeMembers ==
    { "constructor", "hasOwnProperty", "isPrototypeOf", "propertyIsEnumerable",
      "toLocaleString", "toString", "valueOf", "__proto__" }

InheritedMember(name) == <<"Object", "prototype", name>>

getSolarGainFactor(lat, orient) ==
    LET bucket     == Round(RDiv(lat, R(10))) * 10
        safeBucket == IF bucket < 30 THEN 30 ELSE IF bucket > 50 THEN 50 ELSE bucket
        table      == SOLAR_PEAK_GAINS[safeBucket]
    IN  IF orient \in DOMAIN table THEN R(table[orient])
        ELSE IF orient \in ObjectPrototypeMembers THEN InheritedMember(orient)
        ELSE R(50)

(***************************************************************************)
(* Record<string, number> with insertion-ordered keys: a sequence of       *)
(* <<key, value>> pairs.                                                   *)
(***************************************************************************)
HasKey(m, k) == \E i \in 1..Len(m) : m[i][1] = k

\* m[k], undefined when the key is absent
Lookup(m, k) ==
    IF HasKey(m, k) THEN m[CHOOSE i \in 1..Len(m) : m[i][1] = k][2] ELSE Undefined

\* m[k] = v : overwrite in place, or append a new key
Put(m, k, v) ==
    IF HasKey(m, k)
    THEN [i \in 1..Len(m) |-> IF m[i][1] = k THEN <<k, v>> ELSE m[i]]
    ELSE Append(m, <<k, v>>)

\* (m[k] || 0) for integer-valued entries
LookupOr0(m, k) == IF HasKey(m, k) THEN Lookup(m, k) ELSE 0

(***************************************************************************)
(* ManualJEngine.calculate                                                 *)
(***************************************************************************)
\* faulty variant: the solar gain factor read for the building's orientation
\* instead of the window's own
SurfaceCoolLoadByDesignOrientation(surf, design, dT_Cool) ==
    IF surf.type = "window" /\ Truthy(Get(surf, "shgc")) /\ GetStr(surf, "orientation") # ""
    THEN LET transmission == RMul(RMul(surf.uValue, surf.area), dT_Cool)
             pshgf == getSolarGainFactor(design.latitude, design.orientation)
             solar == RMul(RMul(RMul(surf.area, surf.shgc), pshgf),
                           OrElse(Get(surf, "internalShading"), R(1)))
         IN  RAdd(transmission, solar)
    ELSE IF Get(surf, "cltd") # Undefined
    THEN RMul(RMul(surf.uValue, surf.area), surf.cltd)
    ELSE RMul(RMul(surf.uValue, surf.area), dT_Cool)

\* cooling contribution of one surface (the if / else-if / else chain)
SurfaceCoolLoad(surf, design, dT_Cool) ==
    IF surf.type = "window" /\ Truthy(Get(surf, "shgc")) /\ GetStr(surf, "orientation") # ""
    THEN LET transmission == RMul(RMul(surf.uValue, surf.area), dT_Cool)
             pshgf == getSolarGainFactor(design.latitude, surf.orientation)
             solar == RMul(RMul(RMul(surf.area, surf.shgc), pshgf),
                           OrElse(Get(surf, "internalShading"), R(1)))
         IN  RAdd(transmission, solar)
    ELSE IF Get(surf, "cltd") # Undefined
    THEN RMul(RMul(surf.uValue, surf.area), surf.cltd)
    ELSE RMul(RMul(surf.uValue, surf.area), dT_Cool)

\* faulty variant: the U-value taken for an R-value (area / R x dT)
SurfaceHeatLoadByResistance(surf, dT_Heat) ==
    IF surf.uValue[1] = 0 THEN R(0) ELSE RMul(RDiv(surf.area, surf.uValue), dT_Heat)

\* faulty variant: the temperature difference left out of the transmission load
SurfaceHeatLoadNoDeltaT(surf, dT_Heat) == RMul(surf.uValue, surf.area)

\* heating contribution of one surface
SurfaceHeatLoad(surf, dT_Heat) == RMul(RMul(surf.uValue, surf.area), dT_Heat)

\* one pass of the surfaces.forEach body over the running output
AddSurface(out, surf, heatLoad, coolLoad) ==
    [ out EXCEPT
        !.heatingTotal     = RAdd(out.heatingTotal, heatLoad),
        !.heatingBreakdown = Put(out.heatingBreakdown, surf.name,
                                 LookupOr0(out.heatingBreakdown, surf.name) + Round(heatLoad)),
        !.coolingSensible  = RAdd(out.coolingSensible, coolLoad),
        !.coolingBreakdown = Put(out.coolingBreakdown, surf.name,
                                 LookupOr0(out.coolingBreakdown, surf.name) + Round(coolLoad)) ]

\* the surfaces.forEach loop, from surface i on, over the running output
RECURSIVE SurfaceLoop(_, _, _, _, _, _)
SurfaceLoop(surfaces, i, design, dT_Heat, dT_Cool, out) ==
    IF i > Len(surfaces) THEN out
    ELSE SurfaceLoop(surfaces, i + 1, design, dT_Heat, dT_Cool,
             AddSurface(out, surfaces[i], SurfaceHeatLoad(surfaces[i], dT_Heat),
                        SurfaceCoolLoad(surfaces[i], design, dT_Cool)))

\* infiltration airflow
InfiltrationCFM(infiltration) ==
    IF infiltration.method = "ACH"
    THEN RDiv(RMul(infiltration.value, infiltration.volume), R(60))
    ELSE RMul(infiltration.value, Dec(5, 100))

\* faulty variant: no heating penalty for ducts outside the conditioned space
DuctHeatNone(total) == R(0)

\* the duct penalty applied to a running total (ducts.location # 'conditioned')
DuctHeat(total) == RMul(total, Dec(15, 100))
DuctCool(total) == RMul(total, Dec(20, 100))

\* faulty variant: the latent part left out of the total
TotalCoolingSensibleOnly(coolingSensible, coolingLatent) == coolingSensible

\* totalCooling of the returned object
TotalCooling(coolingSensible, coolingLatent) == coolingSensible + coolingLatent

\* faulty variant: the heating difference not clamped at zero
HeatingDeltaTUnclamped(design) ==
    RSub(design.indoorTempWinter, design.outdoorTempWinter)

\* design temperature differences, clamped at zero
HeatingDeltaT(design) ==
    RMax(R(0), RSub(design.indoorTempWinter, design.outdoorTempWinter))

CoolingDeltaT(design) ==
    RMax(R(0), RSub(design.outdoorTempSummer, design.indoorTempSummer))

\* the running output before the first surface
EmptyOutput ==
    [ heatingTotal |-> R(0), heatingBreakdown |-> <<>>,
      coolingSensible |-> R(0), coolingLatent |-> R(0), coolingBreakdown |-> <<>> ]

\* the infiltration loads added to the running output
AddInfiltration(out, infHeat, infCoolSens, infCoolLat) ==
    [ out EXCEPT
        !.heatingTotal     = RAdd(out.heatingTotal, infHeat),
        !.heatingBreakdown = Put(out.heatingBreakdown, "Infiltration", Round(infHeat)),
        !.coolingSensible  = RAdd(out.coolingSensible, infCoolSens),
        !.coolingLatent    = RAdd(out.coolingLatent, infCoolLat),
        !.coolingBreakdown = Put(Put(out.coolingBreakdown,
                                     "Infiltration Sensible", Round(infCoolSens)),
                                 "Infiltration Latent", Round(infCoolLat)) ]

\* the infiltration block for an airflow of cfm
InfiltrationLoads(out, cfm, design, dT_Heat, dT_Cool) ==
    AddInfiltration(out,
        RMul(RMul(cfm, PSYCH.SENSIBLE_FACTOR), dT_Heat),
        RMul(RMul(cfm, PSYCH.SENSIBLE_FACTOR), dT_Cool),
        RMul(RMul(cfm, PSYCH.LATENT_FACTOR), calculateGrainsDiff(design)))

\* people and appliances added to the running output
InternalGains(out, internals) ==
    LET peopleSens == RMul(internals.occupants, R(230))
        peopleLat  == RMul(internals.occupants, R(200))
    IN  [ out EXCEPT
            !.coolingSensible  = RAdd(out.coolingSensible,
                                      RAdd(peopleSens, internals.applianceSensible)),
            !.coolingLatent    = RAdd(out.coolingLatent,
                                      RAdd(peopleLat, internals.applianceLatent)),
            !.coolingBreakdown = Put(out.coolingBreakdown, "Internals",
                                     Round(RAdd(peopleSens, internals.applianceSensible))) ]

\* the duct penalties added to the running output
AddDuctLoss(out, ductHeat, ductCool) ==
    [ out EXCEPT
        !.heatingTotal     = RAdd(out.heatingTotal, ductHeat),
        !.heatingBreakdown = Put(out.heatingBreakdown, "Duct Loss", Round(ductHeat)),
        !.coolingSensible  = RAdd(out.coolingSensible, ductCool),
        !.coolingBreakdown = Put(out.coolingBreakdown, "Duct Gain", Round(ductCool)) ]

\* the duct block: nothing is added for ducts in the conditioned space
DuctLoss(out, ducts) ==
    IF ducts.location # "conditioned"
    THEN AddDuctLoss(out, DuctHeat(out.heatingTotal), DuctCool(out.coolingSensible))
    ELSE out

\* The airflow quotients are taken exactly; where the exact quotient is a half
\* (e.g. 162 / 21.6), the IEEE quotient can fall just below it and Math.round
\* then yields one less than this model's coolingCFM.
ReturnedLoads(out, heatingLoad, coolingSensible, coolingLatent, grainsDiff) ==
    [ heatingLoad     |-> heatingLoad,
      coolingSensible |-> coolingSensible,
      coolingLatent   |-> coolingLatent,
      totalCooling    |-> TotalCooling(coolingSensible, coolingLatent),
      coolingLoad     |-> TotalCooling(coolingSensible, coolingLatent),
      heatingCFM      |-> Round(RDiv(R(heatingLoad), RMul(Dec(108, 100), R(50)))),
      coolingCFM      |-> Round(RDiv(R(coolingSensible), RMul(Dec(108, 100), R(20)))),
      breakdown       |-> [ i \in 1..Len(out.heatingBreakdown) |->
                              [ component |-> out.heatingBreakdown[i][1],
                                heating   |-> out.heatingBreakdown[i][2],
                                cooling   |-> LookupOr0(out.coolingBreakdown,
                                                        out.heatingBreakdown[i][1]) ] ],
      psychrometrics  |-> [ grainsDifference |-> grainsDiff ] ]

\* the rounded totals of the finished output
RoundedLoads(out, design) ==
    ReturnedLoads(out, Round(out.heatingTotal), Round(out.coolingSensible),
                  Round(out.coolingLatent), calculateGrainsDiff(design))

\* the blocks of calculate for given temperature differences
CalculateBlocks(input, dT_Heat, dT_Cool) ==
    RoundedLoads(
        DuctLoss(
            InternalGains(
                InfiltrationLoads(
                    SurfaceLoop(input.surfaces, 1, input.design, dT_Heat, dT_Cool,
                                EmptyOutput),
                    InfiltrationCFM(input.infiltration), input.design, dT_Heat, dT_Cool),
                input.internals),
            input.ducts),
        input.design)

calculate(input) ==
    CalculateBlocks(input, HeatingDeltaT(input.design), CoolingDeltaT(input.design))

(***************************************************************************)
(* Number.prototype.toFixed followed by parseFloat: the decimal with       *)
(* `digits` fraction digits nearest to x (halves away from zero); NaN and  *)
(* the infinities print and parse as themselves.                           *)
(***************************************************************************)
RECURSIVE Pow10(_)
Pow10(k) == IF k = 0 THEN 1 ELSE 10 * Pow10(k - 1)

ParseFloatToFixed(x, digits) ==
    IF ~IsFinite(x) THEN x
    ELSE LET p == Pow10(digits)
             m == Round(RMul(<<Abs(x[1]), x[2]>>, R(p)))
         IN  Norm((IF x[1] < 0 THEN -1 ELSE 1) * m, p)

(***************************************************************************)
(* ManualJEngine.calculateAED                                              *)
(***************************************************************************)
\* Math.max(0, Math.sin(((hour - 7) / 13) * Math.PI)) in ten-thousandths
SunIntensityE4 ==
    << 0, 0, 0, 0, 0, 0, 0,
       0, 2393, 4647, 6631, 8230, 9350, 9927, 9927, 9350, 8230, 6631, 4647, 2393, 0,
       0, 0, 0 >>

sunIntensity(hour) == Dec(SunIntensityE4[hour + 1], 10000)

IsWindow(surf) == surf.type = "window"

RECURSIVE SumArea(_, _)
SumArea(surfs, i) ==
    IF i > Len(surfs) THEN R(0) ELSE RAdd(surfs[i].area, SumArea(surfs, i + 1))

\* Math.max(...xs[lo..hi]) and the running sum of xs[lo..hi]; exact addition
\* and max are associative, so the range is split in halves
RECURSIVE SeqMax(_, _, _)
SeqMax(xs, lo, hi) ==
    IF lo = hi THEN xs[lo]
    ELSE LET mid == (lo + hi) \div 2
         IN  RMax(SeqMax(xs, lo, mid), SeqMax(xs, mid + 1, hi))

RECURSIVE SeqSum(_, _, _)
SeqSum(xs, lo, hi) ==
    IF lo = hi THEN xs[lo]
    ELSE LET mid == (lo + hi) \div 2
         IN  RAdd(SeqSum(xs, lo, mid), SeqSum(xs, mid + 1, hi))

\* status of the returned AEDExcursion
AEDStatus(excursion) == IF RLt(excursion, R(30)) THEN "Pass" ELSE "Fail"

\* ((maxGlazingLoad - averageGlazingLoad) / averageGlazingLoad) * 100
\* (NaN and the infinities stay what they are when multiplied by 100)
Times100(q) == IF IsFinite(q) THEN RMul(q, R(100)) ELSE q

ExcursionPercent(maxGlazingLoad, averageGlazingLoad) ==
    Times100(RDiv(RSub(maxGlazingLoad, averageGlazingLoad), averageGlazingLoad))

\* the returned AEDExcursion
AEDReturn(hourlyLoads, excursion) ==
    [ hourlyLoads         |-> hourlyLoads,
      maxExcursionPercent |-> ParseFloatToFixed(excursion, 1),
      limitPercent        |-> R(30),
      status              |-> AEDStatus(excursion) ]

\* faulty variant: the base load left in the peak (maxGlazingLoad taken as
\* Math.max(...hourlyLoads))
AEDOfProfileWithBase(hourlyGlassLoad, hourlyLoads, baseCoolingLoad) ==
    AEDReturn(hourlyLoads,
        ExcursionPercent(SeqMax(hourlyLoads, 1, 24),
                         RDiv(SeqSum(hourlyGlassLoad, 1, 24), R(24))))

\* the excursion of the 24 hourly loads
AEDOfProfile(hourlyGlassLoad, hourlyLoads, baseCoolingLoad) ==
    AEDReturn(hourlyLoads,
        ExcursionPercent(RSub(SeqMax(hourlyLoads, 1, 24), baseCoolingLoad),
                         RDiv(SeqSum(hourlyGlassLoad, 1, 24), R(24))))

\* the hour loop over the glass load profile
AEDOfGlassProfile(hourlyGlassLoad, baseCoolingLoad) ==
    AEDOfProfile(hourlyGlassLoad,
                 [h \in 1..24 |-> RAdd(baseCoolingLoad, hourlyGlassLoad[h])],
                 baseCoolingLoad)

\* peak glass load and the base load that remains of the full calculation
AEDOfPeak(peakGlassLoad, totalCooling) ==
    AEDOfGlassProfile([h \in 1..24 |-> RMul(peakGlassLoad, sunIntensity(h - 1))],
                      RSub(R(totalCooling), peakGlassLoad))

\* windowArea * windowSHGC * solarFactor
PeakGlassLoad(windows, design) ==
    RMul(RMul(SumArea(windows, 1),
              IF Len(windows) > 0
              THEN OrElse(Get(windows[1], "shgc"), Dec(3, 10))
              ELSE Dec(3, 10)),
         getSolarGainFactor(design.latitude, design.orientation))

calculateAED(input) ==
    AEDOfPeak(PeakGlassLoad(SelectSeq(input.surfaces, IsWindow), input.design),
              calculate(input).totalCooling)

(***************************************************************************)
(* ManualJEngine.calculateMultiOrientation                                 *)
(***************************************************************************)
directions == <<"N", "NE", "E", "SE", "S", "SW", "W", "NW">>

\* the string-valued properties of a surface (never undefined in an input)
StringFields == {"name", "type", "orientation"}

\* JSON.parse(JSON.stringify(surf)): a property whose value is undefined is
\* not serialised, so the copy does not have it
JSONCloneSurface(surf) ==
    [k \in {f \in DOMAIN surf : f \in StringFields \/ surf[f] # Undefined} |-> surf[k]]

\* JSON.parse(JSON.stringify(input))
JSONClone(input) ==
    [ design       |-> input.design,
      surfaces     |-> [i \in 1..Len(input.surfaces) |-> JSONCloneSurface(input.surfaces[i])],
      infiltration |-> input.infiltration,
      ducts        |-> input.ducts,
      internals    |-> input.internals ]

\* tempInput.design.orientation = dir
WithOrientation(input, dir) ==
    [input EXCEPT !.design = [input.design EXCEPT !.orientation = dir]]

\* faulty variant: the two airflow columns swapped
OrientationRowSwappedCFM(input, dir) ==
    LET tempInput == WithOrientation(JSONClone(input), dir)
        res       == calculate(tempInput)
    IN  [ direction  |-> dir,
          sensible   |-> res.coolingSensible,
          latent     |-> res.coolingLatent,
          total      |-> res.totalCooling,
          heatingCFM |-> res.coolingCFM,
          coolingCFM |-> res.heatingCFM ]

OrientationRow(input, dir) ==
    LET tempInput == WithOrientation(JSONClone(input), dir)
        res       == calculate(tempInput)
    IN  [ direction  |-> dir,
          sensible   |-> res.coolingSensible,
          latent     |-> res.coolingLatent,
          total      |-> res.totalCooling,
          heatingCFM |-> res.heatingCFM,
          coolingCFM |-> res.coolingCFM ]

calculateMultiOrientation(input) ==
    [i \in 1..Len(directions) |-> OrientationRow(input, directions[i])]

(***************************************************************************)
(* Inputs of the load engine                                               *)
(***************************************************************************)
MaxSurfaces == 2

Wall ==
    [name |-> "Wall", type |-> "wall", area |-> R(1000), uValue |-> Dec(5, 100)]
Roof ==
    [name |-> "Roof", type |-> "roof", area |-> R(600), uValue |-> Dec(3, 100),
     cltd |-> R(40)]
NightWall ==
    [name |-> "Wall", type |-> "wall", area |-> R(120), uValue |-> Dec(5, 100),
     cltd |-> R(-2)]
WindowS ==
    [name |-> "Window", type |-> "window", area |-> R(20), uValue |-> Dec(55, 100),
     shgc |-> Dec(4, 10), orientation |-> "S"]
WindowE ==
    [name |-> "Window", type |-> "window", area |-> R(12), uValue |-> Dec(55, 100),
     shgc |-> Dec(4, 10), orientation |-> "E", internalShading |-> R(0), cltd |-> R(15)]
Skylight ==
    [name |-> "Skylight", type |-> "window", area |-> R(8), uValue |-> Dec(55, 100),
     cltd |-> Undefined]

SurfaceKinds == {Wall, Roof, NightWall, WindowS, WindowE, Skylight}

RECURSIVE SeqsUpTo(_, _)
SeqsUpTo(S, n) ==
    IF n = 0 THEN {<<>>}
    ELSE LET shorter == SeqsUpTo(S, n - 1)
         IN  shorter \cup {Append(q, x) : q \in {r \in shorter : Len(r) = n - 1}, x \in S}

SurfaceLists == SeqsUpTo(SurfaceKinds, MaxSurfaces)

Design(outdoorTempWinter, outdoorTempSummer, orientation) ==
    [ indoorTempWinter  |-> R(70),
      outdoorTempWinter |-> R(outdoorTempWinter),
      indoorTempSummer  |-> R(75),
      outdoorTempSummer |-> R(outdoorTempSummer),
      dailyRange        |-> "M",
      latitude          |-> R(44),
      orientation       |-> orientation ]

Designs ==
    { Design(-10, 95, "S"), Design(75, 95, "mixed"), Design(-10, 50, "S"),
      Design(70, 77, "E") }

Infiltrations ==
    { [method |-> "ACH", value |-> R(0), volume |-> R(8000)],
      [method |-> "ACH", value |-> Dec(35, 100), volume |-> R(8000)],
      [method |-> "CFM", value |-> R(100), volume |-> R(8000)] }

Ducts ==
    { [location |-> "conditioned", rValue |-> R(8), area |-> R(200)],
      [location |-> "attic", rValue |-> R(8), area |-> R(200)] }

Internals ==
    { [occupants |-> R(0), applianceSensible |-> R(0), applianceLatent |-> R(0)],
      [occupants |-> R(4), applianceSensible |-> R(1200), applianceLatent |-> R(300)] }

ManualJInputs ==
    [ design : Designs, surfaces : SurfaceLists, infiltration : Infiltrations,
      ducts : Ducts, internals : Internals ]

\* Inputs with many surfaces under one name (the panels of one wall, entered
\* one by one), and with a surface that carries the name of a fixed line item
MaxMerged == 6

Panel ==
    [name |-> "Wall", type |-> "wall", area |-> Dec(1011, 100), uValue |-> Dec(5, 100)]

InfiltrationBarrier ==
    [name |-> "Infiltration", type |-> "wall", area |-> R(1000), uValue |-> Dec(5, 100)]

MergedSurfaceLists ==
    { [i \in 1..n |-> Panel] : n \in 0..MaxMerged } \cup { <<InfiltrationBarrier>> }

MergedInputs ==
    [ design : Designs, surfaces : MergedSurfaceLists, infiltration : Infiltrations,
      ducts : Ducts, internals : Internals ]

(***************************************************************************)
(* ManualSEngine.verifySelection, ManualSResult variant                    *)
(* (services/engines/manualSEngine.ts, first class)                        *)
(***************************************************************************)
\* the chain of three un-nested if statements that picks the status
ManualSStatus(totalCapacityRatio, sensibleCapacityRatio) ==
    LET s0 == "Pass"
        s1 == IF RLt(totalCapacityRatio, Dec(95, 100)) THEN "Fail: Undersized" ELSE s0
        s2 == IF RLt(Dec(115, 100), totalCapacityRatio) THEN "Fail: Oversized" ELSE s1
        s3 == IF RLt(sensibleCapacityRatio, R(1)) THEN "Warning: SHR Mismatch" ELSE s2
    IN  s3

\* faulty variant: the ratio stored as computed, without the two-decimal rounding
ReportedRatioUnrounded(ratio) == ratio

\* the ratio as stored in the result: parseFloat(ratio.toFixed(2))
ReportedRatio(ratio) == ParseFloatToFixed(ratio, 2)

verifySelection(load, equipment) ==
    LET performance == equipment.performance
        totalCapacityRatio    == RDiv(performance.totalCoolingBTUh, load.totalCooling)
        sensibleCapacityRatio == RDiv(performance.sensibleCoolingBTUh, load.totalSensible)
        heatingCapacityRatio  == RDiv(performance.heatingBTUh, load.totalHeating)
    IN  [ status                |-> ManualSStatus(totalCapacityRatio, sensibleCapacityRatio),
          totalCapacityRatio    |-> ReportedRatio(totalCapacityRatio),
          sensibleCapacityRatio |-> ReportedRatio(sensibleCapacityRatio),
          heatingCapacityRatio  |-> ReportedRatio(heatingCapacityRatio),
          sizingLimits |->
              [ minCoolingBTU |-> Round(RMul(load.totalCooling, Dec(95, 100))),
                maxCoolingBTU |-> Round(RMul(load.totalCooling, Dec(115, 100))) ] ]

(***************************************************************************)
(* ManualSEngine.verifySelection, SizingCompliance variant                 *)
(* (services/engines/manualSEngine.ts, second class)                       *)
(***************************************************************************)
SizingStatus(coolingRatio) ==
    IF RLt(coolingRatio, Dec(95, 100)) THEN "UNDERSIZED"
    ELSE IF RLt(Dec(125, 100), coolingRatio) THEN "OVERSIZED"
    ELSE "OPTIMAL"

IsCompliant(coolingRatio, heatingRatio) ==
    /\ RLe(Dec(95, 100), coolingRatio)
    /\ RLe(coolingRatio, Dec(125, 100))
    /\ RLe(R(1), heatingRatio)

verifySelectionCompliance(load, equipment) ==
    LET coolingRatio  == RDiv(equipment.total, OrElse(load.total, R(1)))
        heatingRatio  == RDiv(equipment.heating, OrElse(load.heating, R(1)))
        sensibleRatio == RDiv(equipment.sensible, OrElse(load.sensible, R(1)))
        status        == SizingStatus(coolingRatio)
        isCompliant   == IsCompliant(coolingRatio, heatingRatio)
    IN  [ isCompliant        |-> isCompliant,
          coolingRatio       |-> coolingRatio,
          heatingRatio       |-> heatingRatio,
          status             |-> status,
          coolingCompliance  |-> ParseFloatToFixed(coolingRatio, 2),
          sensibleCompliance |-> ParseFloatToFixed(sensibleRatio, 2),
          heatingCompliance  |-> ParseFloatToFixed(heatingRatio, 2),
          notes |-> IF isCompliant THEN "Selection is within ACCA Manual S tolerances."
                    ELSE IF status = "OVERSIZED"
                    THEN "Non-compliant: Equipment capacity exceeds 125% limit."
                    ELSE "Non-compliant: Equipment capacity fails to meet 95% threshold." ]

(***************************************************************************)
(* Inputs of the equipment verifier: design loads and equipment capacities *)
(* in BTU/hr, as { sensible, total, heating }.                             *)
(***************************************************************************)
DesignLoads ==
    [ sensible : {R(0), R(750)}, total : {R(0), R(1000)}, heating : {R(0), R(800)} ]

EquipmentCapacities ==
    [ sensible : {R(700), R(750), R(800)},
      total    : {R(0), R(900), R(950), R(1000), R(1150), R(1200), R(1250), R(1300)},
      heating  : {R(700), R(900)} ]

\* the same load and capacity in the field names of the ManualSResult variant
AsSystemLoad(load) ==
    [ totalHeating |-> load.heating, totalCooling |-> load.total,
      totalSensible |-> load.sensible ]

AsEquipmentDetails(capacity) ==
    [ performance |-> [ heatingBTUh         |-> capacity.heating,
                        totalCoolingBTUh    |-> capacity.total,
                        sensibleCoolingBTUh |-> capacity.sensible ] ]

(***************************************************************************)
(* ManualDEngine.designSystem                                              *)
(***************************************************************************)
\* Math.ceil of a finite number
Ceil(x) == -((-x[1]) \div x[2])

\* Math.round where the argument may be NaN or infinite (kept as they are)
MathRound(x) == IF IsFinite(x) THEN R(Round(x)) ELSE x

\* Math.max(a, b): NaN if either argument is NaN
MathMax(a, b) == IF a = NaN \/ b = NaN THEN NaN ELSE RMax(a, b)

\* Math.PI, as the rational 355/113 (within 3 parts in 10^7)
PI == Dec(355, 113)

\* 15 * (k / 2) ^ (1 / 0.45) for k = 0 .. 24, in thousandths of a CFM rounded
\* down: the largest airflow for which Math.pow(cfm / 15, 0.45) * 2 <= k.
\* The table ends at 3752 CFM (a 12 inch duct).
DChartThresholdsE3 ==
    << 0, 3214, 15000, 36932, 69991, 114921, 172329, 242734, 326589, 424301,
       536238, 662737, 804111, 960650, 1132626, 1320297, 1523905, 1743679,
       1979840, 2232597, 2502150, 2788693, 3092411, 3413481, 3752077 >>

DChartThreshold(k) == Dec(DChartThresholdsE3[k + 1], 1000)

\* faulty variant: the chart read from its wrong end
CeilPowTimes2Reversed(cfm) ==
    24 - (CHOOSE k \in 0..24 :
            /\ RLe(cfm, DChartThreshold(k))
            /\ k > 0 => ~RLe(cfm, DChartThreshold(k - 1)))

\* Math.ceil(Math.pow(cfm / 15, 0.45) * 2) for 0 <= cfm <= 3752
CeilPowTimes2(cfm) ==
    CHOOSE k \in 0..24 :
        /\ RLe(cfm, DChartThreshold(k))
        /\ k > 0 => ~RLe(cfm, DChartThreshold(k - 1))

\* const roundSize: Math.pow of a negative base is NaN
RoundSize(cfm) == IF RLt(cfm, R(0)) THEN NaN ELSE Dec(CeilPowTimes2(cfm), 2)

\* faulty variant: the computed size returned without the minimum diameter
FlooredRoundSizeNoFloor(roundSize) == roundSize

\* roundSize of the returned branch: Math.max(5, roundSize)
FlooredRoundSize(roundSize) == MathMax(R(5), roundSize)

\* Math.PI * Math.pow((roundSize / 2) / 12, 2)
AreaSqFt(roundSize) ==
    IF roundSize = NaN THEN NaN
    ELSE RMul(PI, RMul(RDiv(roundSize, R(24)), RDiv(roundSize, R(24))))

\* room.cfm / areaSqFt
Velocity(cfm, areaSqFt) == IF areaSqFt = NaN THEN NaN ELSE RDiv(cfm, areaSqFt)

\* the branch of one room for its computed roundSize
BranchOfSize(room, roundSize) ==
    [ name      |-> room.name,
      cfm       |-> Round(room.cfm),
      roundSize |-> FlooredRoundSize(roundSize),
      velocity  |-> MathRound(Velocity(room.cfm, AreaSqFt(roundSize))) ]

Branch(room) == BranchOfSize(room, RoundSize(room.cfm))

\* rooms.reduce((acc, r) => acc + r.cfm, 0), from room i on
RECURSIVE SumCFM(_, _)
SumCFM(rooms, i) ==
    IF i > Len(rooms) THEN R(0) ELSE RAdd(rooms[i].cfm, SumCFM(rooms, i + 1))

designSystem(rooms, asp, tel) ==
    [ frictionRate |-> ParseFloatToFixed(RDiv(RMul(asp, R(100)), tel), 3),
      totalCFM     |-> Round(SumCFM(rooms, 1)),
      branches     |-> [i \in 1..Len(rooms) |-> Branch(rooms[i])] ]

(***************************************************************************)
(* Inputs of the duct design: rooms with the airflows the report           *)
(* components pass in, cooling * 0.75 / 21.6 (1000 BTU/hr is 625/18 CFM).  *)
(***************************************************************************)
MaxRooms == 2

RoomCFMs == { R(0), R(10), R(15), R(16), Dec(625, 18), R(120), R(400), R(600), R(1200) }

Rooms == [ name : {"Closet", "Great Room"}, cfm : RoomCFMs ]

RoomLists == UNION { [1..n -> Rooms] : n \in 0..MaxRooms }

\* available static pressure and total equivalent length (defaults 0.5, 250)
DuctParameters == { [asp |-> Dec(5, 10), tel |-> R(250)], [asp |-> Dec(8, 10), tel |-> R(300)] }

(***************************************************************************)
(* ManualTEngine.selectTerminals                                           *)
(***************************************************************************)
\* faulty variant: registers rated at 200 CFM each
RegisterCount200(cfm) == IF Ceil(RDiv(cfm, R(200))) > 1 THEN Ceil(RDiv(cfm, R(200))) ELSE 1

\* Math.max(1, Math.ceil(cfm / 180))
RegisterCount(cfm) == IF Ceil(RDiv(cfm, R(180))) > 1 THEN Ceil(RDiv(cfm, R(180))) ELSE 1

\* Math.round(Math.sqrt(area) * 0.75) for area >= 0: the n >= 0 with
\* n - 1/2 <= sqrt(area) * 3/4 < n + 1/2, found on the squares.
\* The search covers rooms up to 1600 sq ft (a throw of 30 ft).
RoundThrow(area) ==
    CHOOSE n \in 0..30 :
        /\ RLt(RMul(area, R(9)), R(4 * (2 * n + 1) * (2 * n + 1)))
        /\ n > 0 => RLe(R(4 * (2 * n - 1) * (2 * n - 1)), RMul(area, R(9)))

\* the returned TerminalSelection for a register count
TerminalsOfCount(roomName, cfm, area, registerCount) ==
    [ roomName        |-> roomName,
      requiredCFM     |-> Round(cfm),
      registerCount   |-> registerCount,
      cfmPerRegister  |-> Round(RDiv(cfm, OrElse(R(registerCount), R(1)))),
      estimatedThrow  |-> RoundThrow(area),
      velocityFPM     |-> Round(RDiv(RDiv(cfm, OrElse(R(registerCount), R(1))), Dec(28, 100))) ]

selectTerminals(roomName, cfm, area) ==
    TerminalsOfCount(roomName, cfm, area, RegisterCount(cfm))

(***************************************************************************)
(* Inputs of the terminal selection                                        *)
(***************************************************************************)
TerminalCFMs ==
    { R(0), R(1), R(90), R(180), R(181), Dec(625, 18), R(360), R(361), R(400), R(540), R(900) }

TerminalAreas == { R(0), R(1), R(100), R(120), R(144), R(300), R(400), R(900) }

TerminalCalls ==
    [ roomName : {"Great Room", "Closet"}, cfm : TerminalCFMs, area : TerminalAreas ]

(***************************************************************************)
(* Inputs of getSolarGainFactor                                            *)
(***************************************************************************)
Latitudes ==
    { R(-35), R(0), R(24), R(25), R(34), R(35), R(44), Dec(445, 10), R(45), R(56), R(90) }

CompassOrientations == {"N", "NE", "E", "SE", "S", "SW", "W", "NW", "Horizontal"}

OrientationStrings == CompassOrientations \cup {"mixed", "", "n", "constructor", "toString"}

(***************************************************************************)
(* withRetry (services/ai/aiService.ts)                                    *)
(***************************************************************************)
RECURSIVE Pow(_, _)
Pow(b, e) == IF e = 0 THEN 1 ELSE b * Pow(b, e - 1)

Min(a, b) == IF a < b THEN a ELSE b

\* the delay before the retry that follows the failed attempt: the variant with
\* RetryOptions caps it at maxDelay, the earlier variant doubles from 1000 ms
Backoff(options, attempt) ==
    IF options.variant = "options"
    THEN Min(options.baseDelay * Pow(options.exponentialBase, attempt - 1), options.maxDelay)
    ELSE Pow(2, attempt - 1) * 1000

\* faulty variant: one attempt more than maxRetries
IsLastAttemptOffByOne(attempt, maxRetries) == attempt = maxRetries + 1

\* if (attempt === maxRetries)
IsLastAttempt(attempt, maxRetries) == attempt = maxRetries

\* the error withRetry throws after the last failed attempt
CriticalError(maxRetries) == [critical |-> TRUE, attempts |-> maxRetries]

\* the throw statement after the for loop: the critical error in the variant
\* with RetryOptions, 'Unexpected failure' in the earlier variant
LoopExitError(options) ==
    IF options.variant = "options" THEN CriticalError(options.maxRetries)
    ELSE [critical |-> FALSE, attempts |-> 0]

(***************************************************************************)
(* Inputs of withRetry                                                     *)
(***************************************************************************)
MaxRetriesBound == 4

RetryOptions ==
    [ variant : {"basic"}, maxRetries : 0..MaxRetriesBound,
      baseDelay : {1000}, maxDelay : {10000}, exponentialBase : {2} ]
    \cup
    [ variant : {"options"}, maxRetries : 0..MaxRetriesBound,
      baseDelay : {1000, 4000}, maxDelay : {10000}, exponentialBase : {2, 3} ]

(***************************************************************************)
(* PipelineOrchestrator.execute, enhanced variant: stage 3, data mapping   *)
(***************************************************************************)
\* el.dimensionsText.match(/(\d+\.?\d*)['"]?\s*[xX]\s*(\d+\.?\d*)['"]?/) and
\* parseFloat of the two groups, for the dimension texts of the inputs;
\* undefined when the pattern does not match
ParsedDimensions(dimensionsText) ==
    CASE dimensionsText = "12' x 10'"    -> <<R(12), R(10)>>
      [] dimensionsText = "15.5 X 20"    -> <<Dec(155, 10), R(20)>>
      [] dimensionsText = "0 x 10"       -> <<R(0), R(10)>>
      [] OTHER                           -> Undefined

\* Method 1: area from dimensionsText, 0 when the text is absent or unparsed
AreaFromDimensions(el) ==
    IF GetStr(el, "dimensionsText") # "" /\ ParsedDimensions(el.dimensionsText) # Undefined
    THEN RMul(ParsedDimensions(el.dimensionsText)[1], ParsedDimensions(el.dimensionsText)[2])
    ELSE R(0)

\* Method 2: area from the bounding box [x1, y1, x2, y2] and the scale
AreaFromBoundingBox(boundingBox, ppf) ==
    RMul(RDiv(RSub(boundingBox[3], boundingBox[1]), ppf),
         RDiv(RSub(boundingBox[4], boundingBox[2]), ppf))

PixelsPerFoot(visionResult) ==
    IF "scaleAnnotation" \in DOMAIN visionResult
    THEN Get(visionResult.scaleAnnotation, "pixelsPerFoot")
    ELSE Undefined

\* the area after methods 1 and 2 (0 if neither applies)
MeasuredArea(el, visionResult) ==
    IF AreaFromDimensions(el) # R(0) THEN AreaFromDimensions(el)
    ELSE IF /\ "boundingBox" \in DOMAIN el
            /\ Truthy(PixelsPerFoot(visionResult))
            /\ RLt(R(0), PixelsPerFoot(visionResult))
    THEN AreaFromBoundingBox(el.boundingBox, PixelsPerFoot(visionResult))
    ELSE R(0)

\* roomName.toUpperCase().includes(keyword) for the room names of the inputs
NameIncludes(roomName, keyword) ==
    CASE roomName = "Bedroom 1"   -> keyword \in {"BEDROOM"}
      [] roomName = "Master Bath" -> keyword \in {"BATH"}
      [] roomName = "Kitchen"     -> keyword \in {"KITCHEN", "KIT"}
      [] roomName = "Garage"      -> keyword \in {"GARAGE"}
      [] OTHER                    -> FALSE

unconditionedKeywords == {"GARAGE", "PATIO", "DECK", "PORCH", "LANAI", "BALCONY"}

IsConditioned(el) ==
    ~\E keyword \in unconditionedKeywords : NameIncludes(GetStr(el, "roomName"), keyword)

\* `Room ${i}` of the inputs' indices
DefaultRoomName(i) == IF i = 0 THEN "Room 0" ELSE IF i = 1 THEN "Room 1" ELSE "Room 2"

RoomId(i) == IF i = 0 THEN "room-0" ELSE IF i = 1 THEN "room-1" ELSE "room-2"

\* the room mapped from vision element el at (zero-based) index i, for its area
MappedRoom(el, i, area) ==
    [ id        |-> RoomId(i),
      name      |-> IF GetStr(el, "roomName") # "" THEN el.roomName ELSE DefaultRoomName(i),
      area      |-> area,
      volume    |-> RMul(area, R(9)),
      internals |-> [occupants |-> IF IsConditioned(el) THEN 1 ELSE 0] ]

\* Fallback: a measured area of 0 becomes the default 100 sq ft
AreaOrDefault(area) == IF area = R(0) THEN R(100) ELSE area

MapRooms(visionResult) ==
    [ i \in 1..Len(visionResult.rooms) |->
        MappedRoom(visionResult.rooms[i], i - 1,
                   AreaOrDefault(MeasuredArea(visionResult.rooms[i], visionResult))) ]

\* the default-area warnings pushed while mapping, in room order
DefaultAreaWarnings(visionResult) ==
    SelectSeq([i \in 1..Len(visionResult.rooms) |->
                 IF MeasuredArea(visionResult.rooms[i], visionResult) = R(0)
                 THEN "default area" ELSE ""],
              LAMBDA w : w # "")

RECURSIVE ConditionedArea(_, _)
ConditionedArea(rooms, i) ==
    IF i > Len(rooms) THEN R(0)
    ELSE RAdd(IF rooms[i].internals.occupants > 0 THEN rooms[i].area ELSE R(0),
              ConditionedArea(rooms, i + 1))

CountRooms(visionResult, keywords) ==
    Cardinality({ i \in 1..Len(visionResult.rooms) :
        \E keyword \in keywords : NameIncludes(GetStr(visionResult.rooms[i], "roomName"), keyword) })

\* the warnings pushed by the validation block
ValidationWarnings(visionResult, totalConditionedArea) ==
    (IF RLt(totalConditionedArea, R(500)) THEN <<"conditioned area low">> ELSE <<>>)
    \o (IF RLt(R(10000), totalConditionedArea) THEN <<"conditioned area high">> ELSE <<>>)
    \o (IF CountRooms(visionResult, {"BDRM", "BEDROOM"}) = 0 THEN <<"no bedrooms">> ELSE <<>>)
    \o (IF CountRooms(visionResult, {"BATH"}) = 0 THEN <<"no bathrooms">> ELSE <<>>)

\* metrics.warnings after stage 3
MappingWarnings(visionResult, enableValidation) ==
    DefaultAreaWarnings(visionResult)
    \o (IF enableValidation
        THEN ValidationWarnings(visionResult, ConditionedArea(MapRooms(visionResult), 1))
        ELSE <<>>)

\* the ProjectState assembled after stage 3 (the fields that vary)
CompleteProjectState(projectId, metrics, rooms) ==
    [ id       |-> projectId,
      status   |-> "COMPLETE",
      metadata |-> [jobName |-> "Multi-Pass Vision Analysis", pipelineMetrics |-> metrics],
      rooms    |-> rooms ]

\* the errorState built in the catch block
ErrorProjectState(projectId, metrics) ==
    [ id       |-> projectId,
      status   |-> "ERROR",
      metadata |-> [jobName |-> "Failed Pipeline", pipelineMetrics |-> metrics],
      rooms    |-> <<>> ]

\* the errors validateProjectState pushes for the rooms, from room i on
\* (i is one-based here, the messages carry the zero-based index)
RECURSIVE RoomErrors(_, _)
RoomErrors(rooms, i) ==
    IF i > Len(rooms) THEN <<>>
    ELSE (IF rooms[i].id = "" THEN <<<<i - 1, "Missing ID">>>> ELSE <<>>)
         \o (IF rooms[i].name = "" THEN <<<<i - 1, "Missing name">>>> ELSE <<>>)
         \o (IF RLe(rooms[i].area, R(0)) THEN <<<<i - 1, "Invalid area">>>> ELSE <<>>)
         \o RoomErrors(rooms, i + 1)

\* PipelineOrchestrator.validateProjectState, for a state that has its
\* metadata and rooms fields
validateProjectState(state) ==
    LET errors ==
            (IF state.id = "" THEN <<<<-1, "Missing project ID">>>> ELSE <<>>)
            \o (IF Len(state.rooms) = 0 THEN <<<<-1, "No rooms detected">>>> ELSE <<>>)
            \o (IF state.status \notin {"COMPLETE", "ERROR", "PROCESSING"}
                THEN <<<<-1, "Invalid status">>>> ELSE <<>>)
            \o RoomErrors(state.rooms, 1)
    IN  [valid |-> Len(errors) = 0, errors |-> errors]

\* metrics as initialised at the start of execute
InitialMetrics(projectId) ==
    [ pipelineId |-> projectId, stages |-> {}, errors |-> <<>>, warnings |-> <<>>,
      pipelineStatus |-> "PROCESSING" ]

(***************************************************************************)
(* Inputs of the pipeline: what rasterizePdfToParts and runVisionStage do. *)
(***************************************************************************)
MaxVisionRooms == 2

ZoneAnnotations ==
    { [roomName |-> "Bedroom 1", dimensionsText |-> "12' x 10'"],
      [roomName |-> "Master Bath", dimensionsText |-> "approx. 8 by 10",
       boundingBox |-> <<R(100), R(100), R(200), R(180)>>],
      [roomName |-> "Kitchen", dimensionsText |-> "0 x 10",
       boundingBox |-> <<R(300), R(0), R(100), R(150)>>],
      [roomName |-> "Garage", dimensionsText |-> "15.5 X 20"],
      [boundingBox |-> <<R(0), R(0), R(0), R(100)>>] }

ZoneLists == UNION { [1..n -> ZoneAnnotations] : n \in 0..MaxVisionRooms }

\* runVisionStage: it throws, resolves to null, or resolves to an AnnotationResult
VisionOutcomes ==
    { [throws |-> TRUE], [null |-> TRUE] }
    \cup [ rooms : ZoneLists ]
    \cup [ rooms : ZoneLists, scaleAnnotation : {[pixelsPerFoot |-> R(10)]} ]

\* rasterizePdfToParts: it throws, or resolves to this many image parts
PdfOutcomes == { [throws |-> TRUE], [imageParts |-> 0], [imageParts |-> 2] }

\* 'ccip-' + Math.random().toString(36).substr(2, 9): the suffix is empty when
\* Math.random() returns 0
ProjectIds == {"ccip-", "ccip-4fzyo82mv"}

(***************************************************************************)
(* ManualJEngine.calculate, envelope variant (services/manualJEngine.ts),  *)
(* the one the room calculations of the UI call                            *)
(***************************************************************************)
\* const CONSTANTS of services/manualJEngine.ts
ENVELOPE_CONSTANTS ==
    [ SOLAR_GAINS |->
        [ north |-> R(15), south |-> R(50), east |-> R(120), west |-> R(120),
          northeast |-> R(80), northwest |-> R(80), southeast |-> R(100),
          southwest |-> R(100), mixed |-> R(80) ],
      FOUNDATION_FACTORS |->
        [ slab |-> Dec(8, 10), basement |-> R(1), crawlspace |-> Dec(12, 10) ],
      SENSIBLE_PER_PERSON |-> R(230),
      LATENT_PER_PERSON   |-> R(200),
      SAFETY_FACTOR       |-> Dec(11, 10),
      BTU_PER_WATT        |-> Dec(3413, 1000) ]

\* const addLoad = (name, heat, coolSens, coolLat = 0) => { ... }, over the
\* running results
addLoad(results, name, heat, coolSens, coolLat) ==
    [ heating   |-> RAdd(results.heating, heat),
      sensible  |-> RAdd(results.sensible, coolSens),
      latent    |-> RAdd(results.latent, coolLat),
      breakdown |-> Append(results.breakdown,
                           [ component |-> name,
                             heating   |-> Round(heat),
                             cooling   |-> Round(RAdd(coolSens, coolLat)) ]) ]

\* U x area for a U-value that falls back to its default when it is 0 or missing
UA(uValue, default, area) == RMul(OrElse(uValue, default), area)

\* CONSTANTS.FOUNDATION_FACTORS[envelope.foundationType] || 1.0
FoundationFactor(envelope) ==
    IF envelope.foundationType \in DOMAIN ENVELOPE_CONSTANTS.FOUNDATION_FACTORS
    THEN ENVELOPE_CONSTANTS.FOUNDATION_FACTORS[envelope.foundationType]
    ELSE R(1)

\* CONSTANTS.SOLAR_GAINS[climate.orientation] || 80
EnvelopeSolarFactor(climate) ==
    IF climate.orientation \in DOMAIN ENVELOPE_CONSTANTS.SOLAR_GAINS
    THEN ENVELOPE_CONSTANTS.SOLAR_GAINS[climate.orientation]
    ELSE R(80)

\* 1. Envelope Transmission: walls, windows, doors, roof, floor
EnvelopeTransmission(envelope, physics, dT_Heat, dT_Cool) ==
    addLoad(
      addLoad(
        addLoad(
          addLoad(
            addLoad([heating |-> R(0), sensible |-> R(0), latent |-> R(0), breakdown |-> <<>>],
                    "Walls",
                    RMul(UA(Get(physics, "wallUValue"), Dec(5, 100), envelope.wallArea), dT_Heat),
                    RMul(UA(Get(physics, "wallUValue"), Dec(5, 100), envelope.wallArea), dT_Cool),
                    R(0)),
            "Windows (Cond)",
            RMul(UA(Get(physics, "windowUValue"), Dec(55, 100), envelope.windowArea), dT_Heat),
            RMul(UA(Get(physics, "windowUValue"), Dec(55, 100), envelope.windowArea), dT_Cool),
            R(0)),
          "Doors",
          RMul(UA(Get(physics, "doorUValue"), Dec(2, 10), envelope.doorArea), dT_Heat),
          RMul(UA(Get(physics, "doorUValue"), Dec(2, 10), envelope.doorArea), dT_Cool),
          R(0)),
        "Roof/Ceiling",
        RMul(UA(Get(physics, "roofUValue"), Dec(3, 100), envelope.roofArea), dT_Heat),
        RMul(UA(Get(physics, "roofUValue"), Dec(3, 100), envelope.roofArea), dT_Cool),
        R(0)),
      "Floor",
      RMul(RMul(UA(Get(physics, "floorUValue"), Dec(4, 100), envelope.floorArea), dT_Heat),
           FoundationFactor(envelope)),
      RMul(RMul(RMul(UA(Get(physics, "floorUValue"), Dec(4, 100), envelope.floorArea), dT_Cool),
                FoundationFactor(envelope)),
           Dec(5, 10)),
      R(0))

\* 2. Solar Gain
EnvelopeSolarGain(results, input) ==
    addLoad(results, "Solar Gain", R(0),
            RMul(RMul(input.envelope.windowArea,
                      OrElse(Get(input.physics, "windowSHGC"), Dec(4, 10))),
                 EnvelopeSolarFactor(input.climate)),
            R(0))

\* const totalCFM: air changes over the room volume plus ventilation
EnvelopeTotalCFM(envelope, physics) ==
    RAdd(RDiv(RMul(OrElse(Get(physics, "airChanges"), Dec(35, 100)),
                   RMul(envelope.floorArea, envelope.ceilingHeight)),
              R(60)),
         OrElse(Get(physics, "ventilationCFM"), R(15)))

\* const humidityDiff
HumidityDiff(climate) ==
    RMax(R(0), RDiv(RSub(climate.humidityRatio, R(60)), R(7000)))

\* 3. Infiltration & Ventilation
EnvelopeAirLoads(results, totalCFM, humidityDiff, dT_Heat, dT_Cool) ==
    addLoad(
      addLoad(results, "Air Link",
              RMul(RMul(totalCFM, Dec(108, 100)), dT_Heat),
              RMul(RMul(totalCFM, Dec(108, 100)), dT_Cool),
              R(0)),
      "Latent (Air)", R(0), R(0),
      RMul(RMul(RMul(totalCFM, Dec(68, 100)), humidityDiff), R(1076)))

\* 4. Internal Gains
EnvelopeInternalGains(results, internals) ==
    addLoad(
      addLoad(results, "Occupants", R(0),
              RMul(internals.occupancy, ENVELOPE_CONSTANTS.SENSIBLE_PER_PERSON),
              RMul(internals.occupancy, ENVELOPE_CONSTANTS.LATENT_PER_PERSON)),
      "Internal Power", R(0),
      RMul(RAdd(internals.applianceLoadWatts, internals.lightingLoadWatts),
           ENVELOPE_CONSTANTS.BTU_PER_WATT),
      R(0))

\* Math.round(x / 12000 * 2), that is Math.round(x / k) for k = 6000, taken
\* without forming the quotient: for an even integer k > 0,
\* floor(x / k + 1/2) = floor((floor(x) + k / 2) / k)
RoundOver(x, k) == ((x[1] \div x[2]) + (k \div 2)) \div k

\* the returned ManualJOutput for the safety-factored totals
EnvelopeReturn(results, sensibleTotal, latentTotal) ==
    [ heatingLoad     |-> Round(RMul(results.heating, ENVELOPE_CONSTANTS.SAFETY_FACTOR)),
      coolingSensible |-> Round(sensibleTotal),
      coolingLatent   |-> Round(latentTotal),
      totalCooling    |-> Round(RAdd(sensibleTotal, latentTotal)),
      breakdown       |-> results.breakdown,
      sizing          |->
        [ heatingBTU  |-> Round(RMul(results.heating, Dec(115, 100))),
          coolingBTU  |-> Round(RMul(RAdd(sensibleTotal, latentTotal), Dec(11, 10))),
          sensibleBTU |-> Round(sensibleTotal),
          latentBTU   |-> Round(latentTotal),
          nominalTons |-> Dec(RoundOver(RMul(RAdd(sensibleTotal, latentTotal), Dec(11, 10)),
                                        6000),
                              2) ] ]

\* const sensibleTotal, latentTotal over the finished results
EnvelopeTotals(results) ==
    EnvelopeReturn(results,
                   RMul(results.sensible, ENVELOPE_CONSTANTS.SAFETY_FACTOR),
                   RMul(results.latent, ENVELOPE_CONSTANTS.SAFETY_FACTOR))

\* the blocks of calculate for given temperature differences
EnvelopeBlocks(input, dT_Heat, dT_Cool) ==
    EnvelopeTotals(
        EnvelopeInternalGains(
            EnvelopeAirLoads(
                EnvelopeSolarGain(
                    EnvelopeTransmission(input.envelope, input.physics, dT_Heat, dT_Cool),
                    input),
                EnvelopeTotalCFM(input.envelope, input.physics),
                HumidityDiff(input.climate), dT_Heat, dT_Cool),
            input.internals))

\* ManualJEngine.calculate of services/manualJEngine.ts; its dT_Heat and
\* dT_Cool are the clamped differences of the same four climate fields
calculateEnvelope(input) ==
    EnvelopeBlocks(input, HeatingDeltaT(input.climate), CoolingDeltaT(input.climate))

(***************************************************************************)
(* Inputs of the envelope engine: the roomInput that runCalculations       *)
(* builds for one room (wall area from the exterior wall length times 9,   *)
(* no doors, roof and floor of the room's area, ceilings of 9 ft).         *)
(***************************************************************************)
RoomClimates ==
    [ outdoorTempWinter : {R(0)}, outdoorTempSummer : {R(95)},
      indoorTempWinter : {R(70)}, indoorTempSummer : {R(75)},
      humidityRatio : {R(60), R(130)}, orientation : {"south", "mixed"} ]

RoomEnvelopes ==
    { [ wallArea |-> R(wallLength * 9), windowArea |-> R(windowsArea), doorArea |-> R(0),
        roofArea |-> R(area), floorArea |-> R(area), ceilingHeight |-> R(9),
        foundationType |-> "slab" ] :
      wallLength \in {0, 10}, windowsArea \in {0, 15}, area \in {0, 200, 400} }

RoomPhysics ==
    [ wallUValue : {Dec(5, 100)}, windowUValue : {Dec(55, 100)}, windowSHGC : {Dec(4, 10)},
      doorUValue : {Dec(2, 10)}, roofUValue : {Dec(3, 100)}, floorUValue : {Dec(4, 100)},
      airChanges : {R(0), Dec(35, 100)}, ventilationCFM : {R(0), R(15)} ]

RoomInternals ==
    [ occupancy : {R(0), R(1)}, applianceLoadWatts : {R(0), R(1000)},
      lightingLoadWatts : {R(0), R(200)} ]

RoomInputs ==
    [ climate : RoomClimates, envelope : RoomEnvelopes, physics : RoomPhysics,
      internals : RoomInternals ]

(***************************************************************************)
(* State                                                                   *)
(***************************************************************************)
VARIABLES
    mjInput,                \* the ManualJInput handed to the load engine
    systemJResult,          \* ManualJEngine.calculate(mjInput)
    aedResult,              \* ManualJEngine.calculateAED(mjInput)
    multiOrientationResult, \* ManualJEngine.calculateMultiOrientation(mjInput)
    stage,                  \* position in the pipeline
    sLoad,                  \* design load handed to the equipment verifier
    sEquipment,             \* equipment capacity handed to the equipment verifier
    manualSResult,          \* verifySelection result, ManualSResult variant
    sCompliance,            \* verifySelection result, SizingCompliance variant
    dRooms,                 \* rooms handed to the duct design
    dParameters,            \* asp and tel handed to the duct design
    ductSizing,             \* ManualDEngine.designSystem result
    tCall,                  \* arguments of the terminal selection
    terminalSelection,      \* ManualTEngine.selectTerminals result
    gLatitude,              \* latitude handed to getSolarGainFactor
    gOrientation,           \* orientation handed to getSolarGainFactor
    solarGainFactor,        \* getSolarGainFactor result
    rOptions,               \* variant of withRetry and its options
    rAttempt,               \* the loop variable attempt
    rPc,                    \* position of the withRetry call
    rOutcomes,              \* outcome of every invocation of operation, in order
    rWaits,                 \* every backoff delay awaited, in order
    rResult,                \* the value returned or the error thrown
    pProjectId,             \* the projectId drawn at the start of execute
    pOptions,               \* PipelineOptions of the call
    pPdf,                   \* what rasterizePdfToParts will do
    pVision,                \* what runVisionStage will do
    pStage,                 \* position of the execute call
    pMetrics,               \* the metrics object
    pError,                 \* the error caught by the catch block
    pOutcome,               \* the ProjectState returned or the error thrown
    eInput,                 \* the roomInput handed to the envelope engine
    eResult                 \* ManualJEngine.calculate(roomInput), envelope variant

varsJ == <<mjInput, systemJResult, aedResult, multiOrientationResult, stage>>
varsS == <<sLoad, sEquipment, manualSResult, sCompliance>>
varsD == <<dRooms, dParameters, ductSizing>>
varsT == <<tCall, terminalSelection>>
varsG == <<gLatitude, gOrientation, solarGainFactor>>
varsR == <<rOptions, rAttempt, rPc, rOutcomes, rWaits, rResult>>
varsP == <<pProjectId, pOptions, pPdf, pVision, pStage, pMetrics, pError, pOutcome>>
varsE == <<eInput, eResult>>
vars == <<varsJ, varsS, varsD, varsT, varsG, varsR, varsP, varsE>>

\* the variables of the other components, seen from each component
exceptJ == <<varsS, varsD, varsT, varsG, varsR, varsP, varsE>>
exceptS == <<varsJ, varsD, varsT, varsG, varsR, varsP, varsE>>
exceptD == <<varsJ, varsS, varsT, varsG, varsR, varsP, varsE>>
exceptT == <<varsJ, varsS, varsD, varsG, varsR, varsP, varsE>>
exceptG == <<varsJ, varsS, varsD, varsT, varsR, varsP, varsE>>
exceptR == <<varsJ, varsS, varsD, varsT, varsG, varsP, varsE>>
exceptP == <<varsJ, varsS, varsD, varsT, varsG, varsR, varsE>>
exceptE == <<varsJ, varsS, varsD, varsT, varsG, varsR, varsP>>

\* value of a variable that holds nothing (yet)
None == [none |-> TRUE]

IdleJ ==
    /\ mjInput = None
    /\ systemJResult = None
    /\ aedResult = None
    /\ multiOrientationResult = None
    /\ stage = "idle"

IdleS ==
    /\ sLoad = None
    /\ sEquipment = None
    /\ manualSResult = None
    /\ sCompliance = None

IdleD == dRooms = None /\ dParameters = None /\ ductSizing = None

IdleT == tCall = None /\ terminalSelection = None

IdleG == gLatitude = None /\ gOrientation = None /\ solarGainFactor = None

IdleR ==
    /\ rOptions = None
    /\ rAttempt = None
    /\ rPc = "idle"
    /\ rOutcomes = None
    /\ rWaits = None
    /\ rResult = None

IdleP ==
    /\ pProjectId = None
    /\ pOptions = None
    /\ pPdf = None
    /\ pVision = None
    /\ pStage = "idle"
    /\ pMetrics = None
    /\ pError = None
    /\ pOutcome = None

IdleE == eInput = None /\ eResult = None

IdleExceptJ == IdleS /\ IdleD /\ IdleT /\ IdleG /\ IdleR /\ IdleP /\ IdleE
IdleExceptS == IdleJ /\ IdleD /\ IdleT /\ IdleG /\ IdleR /\ IdleP /\ IdleE
IdleExceptD == IdleJ /\ IdleS /\ IdleT /\ IdleG /\ IdleR /\ IdleP /\ IdleE
IdleExceptT == IdleJ /\ IdleS /\ IdleD /\ IdleG /\ IdleR /\ IdleP /\ IdleE
IdleExceptG == IdleJ /\ IdleS /\ IdleD /\ IdleT /\ IdleR /\ IdleP /\ IdleE
IdleExceptR == IdleJ /\ IdleS /\ IdleD /\ IdleT /\ IdleG /\ IdleP /\ IdleE
IdleExceptP == IdleJ /\ IdleS /\ IdleD /\ IdleT /\ IdleG /\ IdleR /\ IdleE
IdleExceptE == IdleJ /\ IdleS /\ IdleD /\ IdleT /\ IdleG /\ IdleR /\ IdleP

(***************************************************************************)
(* Load engine: one run of the calculation stages over a ManualJInput      *)
(* (PipelineOrchestrator.execute, stages 3 and 6).                         *)
(***************************************************************************)
Init ==
    /\ mjInput \in ManualJInputs
    /\ systemJResult = None
    /\ aedResult = None
    /\ multiOrientationResult = None
    /\ stage = "normalized"
    /\ IdleExceptJ

\* STAGE 3: const systemJResult = ManualJEngine.calculate(mjInput)
Calculate ==
    /\ stage = "normalized"
    /\ systemJResult' = calculate(mjInput)
    /\ stage' = "physics"
    /\ UNCHANGED <<mjInput, aedResult, multiOrientationResult, exceptJ>>

\* STAGE 6: const aedResult = ManualJEngine.calculateAED(mjInput)
CalculateAED ==
    /\ stage = "physics"
    /\ aedResult' = calculateAED(mjInput)
    /\ stage' = "aed"
    /\ UNCHANGED <<mjInput, systemJResult, multiOrientationResult, exceptJ>>

\* STAGE 6: const multiOrientationResult = ManualJEngine.calculateMultiOrientation(mjInput)
CalculateMultiOrientation ==
    /\ stage = "aed"
    /\ multiOrientationResult' = calculateMultiOrientation(mjInput)
    /\ stage' = "simulated"
    /\ UNCHANGED <<mjInput, systemJResult, aedResult, exceptJ>>

Next == Calculate \/ CalculateAED \/ CalculateMultiOrientation

Spec == Init /\ [][Next]_vars

\* the same run over an input whose surfaces share a name
InitB ==
    /\ mjInput \in MergedInputs
    /\ systemJResult = None
    /\ aedResult = None
    /\ multiOrientationResult = None
    /\ stage = "normalized"
    /\ IdleExceptJ

SpecB == InitB /\ [][Next]_vars

(***************************************************************************)
(* Equipment verifier: both verifySelection variants applied to one load   *)
(* and one equipment capacity.                                             *)
(***************************************************************************)
InitS ==
    /\ sLoad \in DesignLoads
    /\ sEquipment \in EquipmentCapacities
    /\ manualSResult = None
    /\ sCompliance = None
    /\ IdleExceptS

VerifySelection ==
    /\ manualSResult = None
    /\ manualSResult' = verifySelection(AsSystemLoad(sLoad), AsEquipmentDetails(sEquipment))
    /\ UNCHANGED <<sLoad, sEquipment, sCompliance, exceptS>>

VerifySelectionCompliance ==
    /\ sCompliance = None
    /\ sCompliance' = verifySelectionCompliance(sLoad, sEquipment)
    /\ UNCHANGED <<sLoad, sEquipment, manualSResult, exceptS>>

NextS == VerifySelection \/ VerifySelectionCompliance

SpecS == InitS /\ [][NextS]_vars

(***************************************************************************)
(* Duct design: designSystem applied to one room list.                     *)
(***************************************************************************)
InitD ==
    /\ dRooms \in RoomLists
    /\ dParameters \in DuctParameters
    /\ ductSizing = None
    /\ IdleExceptD

DesignSystem ==
    /\ ductSizing = None
    /\ ductSizing' = designSystem(dRooms, dParameters.asp, dParameters.tel)
    /\ UNCHANGED <<dRooms, dParameters, exceptD>>

NextD == DesignSystem

SpecD == InitD /\ [][NextD]_vars

(***************************************************************************)
(* Solar gain lookup: getSolarGainFactor applied to one latitude and one   *)
(* orientation string.                                                     *)
(***************************************************************************)
InitG ==
    /\ gLatitude \in Latitudes
    /\ gOrientation \in OrientationStrings
    /\ solarGainFactor = None
    /\ IdleExceptG

GetSolarGainFactor ==
    /\ solarGainFactor = None
    /\ solarGainFactor' = getSolarGainFactor(gLatitude, gOrientation)
    /\ UNCHANGED <<gLatitude, gOrientation, exceptG>>

NextG == GetSolarGainFactor

SpecG == InitG /\ [][NextG]_vars

(***************************************************************************)
(* withRetry: one call, with the operation resolving or rejecting at each  *)
(* invocation.                                                             *)
(***************************************************************************)
InitR ==
    /\ rOptions \in RetryOptions
    /\ rAttempt = 1
    /\ rPc = "loop"
    /\ rOutcomes = <<>>
    /\ rWaits = <<>>
    /\ rResult = None
    /\ IdleExceptR

\* for (let attempt = 1; attempt <= maxRetries; ...): the operation is invoked,
\* or the loop is left and the error after the loop is thrown
EnterAttempt ==
    /\ rPc = "loop"
    /\ IF rAttempt <= rOptions.maxRetries
       THEN rPc' = "operation" /\ rResult' = rResult
       ELSE rPc' = "thrown" /\ rResult' = LoopExitError(rOptions)
    /\ UNCHANGED <<rOptions, rAttempt, rOutcomes, rWaits, exceptR>>

\* await operation() resolves: its value (here the number of the attempt) is returned
OperationResolves ==
    /\ rPc = "operation"
    /\ rOutcomes' = Append(rOutcomes, "resolved")
    /\ rResult' = [value |-> rAttempt]
    /\ rPc' = "returned"
    /\ UNCHANGED <<rOptions, rAttempt, rWaits, exceptR>>

\* await operation() rejects: the catch block throws after the last attempt
\* and otherwise starts the backoff timer
OperationRejects ==
    /\ rPc = "operation"
    /\ rOutcomes' = Append(rOutcomes, "rejected")
    /\ IF IsLastAttempt(rAttempt, rOptions.maxRetries)
       THEN /\ rPc' = "thrown"
            /\ rResult' = CriticalError(rOptions.maxRetries)
            /\ rWaits' = rWaits
       ELSE /\ rPc' = "backoff"
            /\ rResult' = rResult
            /\ rWaits' = Append(rWaits, Backoff(rOptions, rAttempt))
    /\ UNCHANGED <<rOptions, rAttempt, exceptR>>

\* the setTimeout promise resolves; attempt++
BackoffElapses ==
    /\ rPc = "backoff"
    /\ rAttempt' = rAttempt + 1
    /\ rPc' = "loop"
    /\ UNCHANGED <<rOptions, rOutcomes, rWaits, rResult, exceptR>>

NextR == EnterAttempt \/ OperationResolves \/ OperationRejects \/ BackoffElapses

SpecR == InitR /\ [][NextR]_vars

(***************************************************************************)
(* Enhanced PipelineOrchestrator.execute: one call, stage by stage.        *)
(***************************************************************************)
InitP ==
    /\ pProjectId \in ProjectIds
    /\ pOptions \in [enableValidation : BOOLEAN]
    /\ pPdf \in PdfOutcomes
    /\ pVision \in VisionOutcomes
    /\ pStage = "pdf_processing"
    /\ pMetrics = InitialMetrics(pProjectId)
    /\ pError = None
    /\ pOutcome = None
    /\ IdleExceptP

\* STAGE 1: rasterizePdfToParts throws, or yields no image (an Error is
\* thrown), or the stage metrics are recorded
ProcessPdf ==
    /\ pStage = "pdf_processing"
    /\ IF "throws" \in DOMAIN pPdf
       THEN pStage' = "catch" /\ pError' = [message |-> "rasterize failed"]
                             /\ pMetrics' = pMetrics
       ELSE IF pPdf.imageParts = 0
       THEN pStage' = "catch" /\ pError' = [message |-> "PDF processing produced no images"]
                             /\ pMetrics' = pMetrics
       ELSE /\ pStage' = "vision_analysis"
            /\ pError' = pError
            /\ pMetrics' = [pMetrics EXCEPT !.stages = @ \cup {"pdf_processing"}]
    /\ UNCHANGED <<pProjectId, pOptions, pPdf, pVision, pOutcome, exceptP>>

\* STAGE 2: runVisionStage throws, or yields no rooms (an Error is thrown),
\* or the stage metrics are recorded
AnalyzeVision ==
    /\ pStage = "vision_analysis"
    /\ IF "throws" \in DOMAIN pVision
       THEN pStage' = "catch" /\ pError' = [message |-> "vision stage failed"]
                             /\ pMetrics' = pMetrics
       ELSE IF "null" \in DOMAIN pVision \/ Len(pVision.rooms) = 0
       THEN pStage' = "catch"
            /\ pError' = [message |-> "Vision analysis produced no spatial elements"]
            /\ pMetrics' = pMetrics
       ELSE /\ pStage' = "data_mapping"
            /\ pError' = pError
            /\ pMetrics' = [pMetrics EXCEPT !.stages = @ \cup {"vision_analysis"}]
    /\ UNCHANGED <<pProjectId, pOptions, pPdf, pVision, pOutcome, exceptP>>

\* the metrics when the project state is assembled and finalised
SuccessMetrics(metrics, warnings) ==
    [ metrics EXCEPT !.stages = @ \cup {"data_mapping"},
                     !.warnings = warnings,
                     !.pipelineStatus = "SUCCESS" ]

\* STAGE 3 and project state assembly: return projectState
MapData ==
    /\ pStage = "data_mapping"
    /\ pMetrics' = SuccessMetrics(pMetrics, MappingWarnings(pVision, pOptions.enableValidation))
    /\ pOutcome' = [ returned |->
                       CompleteProjectState(pProjectId, pMetrics', MapRooms(pVision)) ]
    /\ pStage' = "done"
    /\ UNCHANGED <<pProjectId, pOptions, pPdf, pVision, pError, exceptP>>

\* metrics as updated by the catch block
FailedMetrics(metrics, error) ==
    [ metrics EXCEPT !.pipelineStatus = "FAILED",
                     !.errors = Append(@, [stage |-> "pipeline", message |-> error.message]) ]

\* catch (error): the metrics are marked failed, errorState is built, and the
\* error is thrown again
HandleError ==
    /\ pStage = "catch"
    /\ pMetrics' = FailedMetrics(pMetrics, pError)
    /\ pOutcome' = [thrown |-> pError]
    /\ pStage' = "done"
    /\ UNCHANGED <<pProjectId, pOptions, pPdf, pVision, pError, exceptP>>

NextP == ProcessPdf \/ AnalyzeVision \/ MapData \/ HandleError

SpecP == InitP /\ [][NextP]_vars

(***************************************************************************)
(* Terminal selection: selectTerminals applied to one room.                *)
(***************************************************************************)
InitT ==
    /\ tCall \in TerminalCalls
    /\ terminalSelection = None
    /\ IdleExceptT

SelectTerminals ==
    /\ terminalSelection = None
    /\ terminalSelection' = selectTerminals(tCall.roomName, tCall.cfm, tCall.area)
    /\ UNCHANGED <<tCall, exceptT>>

NextT == SelectTerminals

SpecT == InitT /\ [][NextT]_vars

(***************************************************************************)
(* Room calculation: the envelope engine applied to one roomInput         *)
(* (ManualCalculations.runCalculations).                                   *)
(***************************************************************************)
InitE ==
    /\ eInput \in RoomInputs
    /\ eResult = None
    /\ IdleExceptE

\* const jResult = ManualJEngine.calculate(roomInput)
CalculateRoom ==
    /\ eResult = None
    /\ eResult' = calculateEnvelope(eInput)
    /\ UNCHANGED <<eInput, exceptE>>

NextE == CalculateRoom

SpecE == InitE /\ [][NextE]_vars

(***************************************************************************)
(* Properties of the load engine (specification Spec)                      *)
(***************************************************************************)
Calculated == stage # "normalized"

\* the same input with ducts.location set to 'conditioned'
WithConditionedDucts(input) ==
    [input EXCEPT !.ducts = [input.ducts EXCEPT !.location = "conditioned"]]

\* the same input with surface i's area (uValue) raised by inc
WithLargerArea(input, i, inc) ==
    [input EXCEPT !.surfaces[i].area = RAdd(@, inc)]

WithLargerUValue(input, i, inc) ==
    [input EXCEPT !.surfaces[i].uValue = RAdd(@, inc)]

AreaIncrements == {R(1), R(50)}
UValueIncrements == {Dec(1, 100), Dec(1, 2)}

\* all the inputs that differ from input in one surface's larger area or uValue
LargerInputs(input, i) ==
    {WithLargerArea(input, i, inc) : inc \in AreaIncrements}
        \cup {WithLargerUValue(input, i, inc) : inc \in UValueIncrements}

NotSmaller(larger, base) ==
    /\ larger.heatingLoad >= base.heatingLoad
    /\ larger.coolingSensible >= base.coolingSensible

\* area, uValue and the optional cltd, shgc and internalShading of a surface
\* are all non-negative
NonNegativeSurface(surf) ==
    \A k \in DOMAIN surf \ StringFields :
        surf[k] = Undefined \/ RLe(R(0), surf[k])

\* C1: the total cooling load returned by calculate is exactly the sum of the
\* returned sensible and latent loads, each an integer rounded on its own.
C1_CoolingTotalIdentity ==
    Calculated =>
        systemJResult.totalCooling =
            systemJResult.coolingSensible + systemJResult.coolingLatent

C1_Witness ==
    /\ Calculated
    /\ systemJResult.coolingSensible > 0
    /\ systemJResult.coolingLatent > 0

\* the single-wall building of the end-to-end scenario
IsEndToEndScenario(input) ==
    /\ Len(input.surfaces) = 1
    /\ input.surfaces[1].type = "wall"
    /\ input.surfaces[1].area = R(1000)
    /\ input.surfaces[1].uValue = Dec(5, 100)
    /\ Get(input.surfaces[1], "cltd") = Undefined
    /\ input.design.indoorTempWinter = R(70)
    /\ input.design.outdoorTempWinter = R(-10)
    /\ input.design.indoorTempSummer = R(75)
    /\ input.design.outdoorTempSummer = R(95)
    /\ input.infiltration.value = R(0)
    /\ input.internals.occupants = R(0)
    /\ input.internals.applianceSensible = R(0)
    /\ input.internals.applianceLatent = R(0)
    /\ input.ducts.location = "conditioned"

\* C2: for the single wall of 1000 ft2 at U 0.05, 70/-10 in winter and 75/95
\* in summer, with no infiltration, no internal gains and conditioned ducts,
\* calculate returns heating 4000, sensible 1000, latent 0 and total 1000.
C2_EndToEndScenario ==
    (Calculated /\ IsEndToEndScenario(mjInput)) =>
        /\ systemJResult.heatingLoad = 4000
        /\ systemJResult.coolingSensible = 1000
        /\ systemJResult.coolingLatent = 0
        /\ systemJResult.totalCooling = 1000

C2_Witness == Calculated /\ IsEndToEndScenario(mjInput)

\* C3 as stated: raising one surface's area or uValue, all else equal, never
\* lowers heatingLoad or coolingSensible.
C3_MonotoneAnySurface ==
    stage = "physics" =>
        \A i \in 1..Len(mjInput.surfaces) :
            \A larger \in LargerInputs(mjInput, i) :
                NotSmaller(calculate(larger), systemJResult)

\* C3, amended: raising the area or uValue of a surface whose numeric
\* properties (area, uValue, cltd, shgc, internalShading) are all non-negative
\* never lowers heatingLoad or coolingSensible.
C3_MonotoneNonNegativeSurface ==
    stage = "physics" =>
        \A i \in 1..Len(mjInput.surfaces) :
            NonNegativeSurface(mjInput.surfaces[i]) =>
                \A larger \in LargerInputs(mjInput, i) :
                    NotSmaller(calculate(larger), systemJResult)

\* a surface with a cltd was enlarged and both loads grew
C3_Witness ==
    /\ stage = "physics"
    /\ \E i \in 1..Len(mjInput.surfaces) :
        /\ NonNegativeSurface(mjInput.surfaces[i])
        /\ Get(mjInput.surfaces[i], "cltd") # Undefined
        /\ \E larger \in LargerInputs(mjInput, i) :
            /\ calculate(larger).heatingLoad > systemJResult.heatingLoad
            /\ calculate(larger).coolingSensible > systemJResult.coolingSensible

\* C4 as stated: with ducts outside the conditioned space, heatingLoad and
\* coolingSensible are strictly greater than with conditioned ducts.
C4_DuctPenaltyStrict ==
    (stage = "physics" /\ mjInput.ducts.location # "conditioned") =>
        LET base == calculate(WithConditionedDucts(mjInput))
        IN  /\ systemJResult.heatingLoad > base.heatingLoad
            /\ systemJResult.coolingSensible > base.coolingSensible

\* C4, amended: with ducts outside the conditioned space, heatingLoad is
\* strictly greater than the conditioned-duct heatingLoad whenever the latter
\* is at least 8, and coolingSensible strictly greater whenever the
\* conditioned-duct coolingSensible is at least 6; the conditioned-duct result
\* has no 'Duct Loss' entry.
C4_DuctPenaltyAboveThreshold ==
    (stage = "physics" /\ mjInput.ducts.location # "conditioned") =>
        LET base == calculate(WithConditionedDucts(mjInput))
        IN  /\ base.heatingLoad >= 8 =>
                systemJResult.heatingLoad > base.heatingLoad
            /\ base.coolingSensible >= 6 =>
                systemJResult.coolingSensible > base.coolingSensible
            /\ \A j \in 1..Len(base.breakdown) :
                base.breakdown[j].component # "Duct Loss"

C4_Witness ==
    /\ stage = "physics"
    /\ mjInput.ducts.location # "conditioned"
    /\ LET base == calculate(WithConditionedDucts(mjInput))
       IN  /\ base.heatingLoad >= 8
           /\ base.coolingSensible >= 6
           /\ systemJResult.heatingLoad > base.heatingLoad
           /\ \E j \in 1..Len(systemJResult.breakdown) :
                systemJResult.breakdown[j].component = "Duct Loss"

\* C5: when the winter indoor temperature does not exceed the outdoor one, the
\* heating difference used is 0, every breakdown line has heating 0 and
\* heatingLoad is 0.
C5_ZeroDeltaTFloor ==
    (Calculated /\ RLe(mjInput.design.indoorTempWinter, mjInput.design.outdoorTempWinter)) =>
        /\ HeatingDeltaT(mjInput.design) = R(0)
        /\ \A j \in 1..Len(systemJResult.breakdown) :
            systemJResult.breakdown[j].heating = 0
        /\ systemJResult.heatingLoad = 0

\* indoor strictly below outdoor, with surfaces and infiltration present
C5_Witness ==
    /\ Calculated
    /\ RLt(mjInput.design.indoorTempWinter, mjInput.design.outdoorTempWinter)
    /\ Len(mjInput.surfaces) > 0
    /\ mjInput.infiltration.value # R(0)
    /\ systemJResult.heatingLoad = 0

\* C6: calculateMultiOrientation returns 8 rows for N, NE, E, SE, S, SW, W, NW
\* in that order, and each row carries the sensible, latent, total and airflow
\* values calculate returns for the input with design.orientation replaced by
\* the row's direction.
C6_MultiOrientationRows ==
    stage = "simulated" =>
        /\ Len(multiOrientationResult) = 8
        /\ \A i \in 1..8 :
            LET d   == <<"N", "NE", "E", "SE", "S", "SW", "W", "NW">>[i]
                row == multiOrientationResult[i]
                res == calculate(WithOrientation(mjInput, d))
            IN  /\ row.direction = d
                /\ row.sensible = res.coolingSensible
                /\ row.latent = res.coolingLatent
                /\ row.total = res.totalCooling
                /\ row.heatingCFM = res.heatingCFM
                /\ row.coolingCFM = res.coolingCFM

\* a sweep over an input that has a property holding undefined, so that the
\* copy differs from the input, with distinct airflows
C6_Witness ==
    /\ stage = "simulated"
    /\ \E i \in 1..Len(mjInput.surfaces) : JSONCloneSurface(mjInput.surfaces[i]) # mjInput.surfaces[i]
    /\ multiOrientationResult[1].heatingCFM # multiOrientationResult[1].coolingCFM
    /\ multiOrientationResult[1].heatingCFM > 0

AEDComputed == stage \in {"aed", "simulated"}

\* C7: the maxExcursionPercent returned by calculateAED is a non-negative
\* number, for inputs with and without window surfaces.
C7_ExcursionNonNegative ==
    AEDComputed =>
        /\ IsFinite(aedResult.maxExcursionPercent)
        /\ RLe(R(0), aedResult.maxExcursionPercent)

\* C8: the status returned by calculateAED is 'Fail' exactly when the returned
\* maxExcursionPercent is at least 30, and 'Pass' otherwise.
C8_StatusMatchesReportedExcursion ==
    AEDComputed =>
        /\ aedResult.status = "Fail" <=> RLe(R(30), aedResult.maxExcursionPercent)
        /\ aedResult.status = "Pass" <=> ~RLe(R(30), aedResult.maxExcursionPercent)

(***************************************************************************)
(* Properties of the equipment verifier (specification SpecS)              *)
(***************************************************************************)
\* the capacity ratios equipment / load of the current load and equipment
CoolingRatio == RDiv(sEquipment.total, sLoad.total)
SensibleRatio == RDiv(sEquipment.sensible, sLoad.sensible)
HeatingRatio == RDiv(sEquipment.heating, sLoad.heating)

CoolingRatioInWindow ==
    RLe(Dec(95, 100), CoolingRatio) /\ RLe(CoolingRatio, Dec(115, 100))

\* C9: the ManualSResult status is 'Fail: Undersized' whenever the cooling
\* ratio is below 0.95 and 'Fail: Oversized' whenever it is above 1.15,
\* whatever the sensible ratio; 'Warning: SHR Mismatch' is returned only for a
\* cooling ratio in [0.95, 1.15] with a sensible ratio below 1.0.  Stated for
\* non-zero design loads, where every ratio is a finite number.
C9_StatusPriority ==
    (manualSResult # None /\ sLoad.total # R(0) /\ sLoad.sensible # R(0)) =>
        /\ RLt(CoolingRatio, Dec(95, 100)) => manualSResult.status = "Fail: Undersized"
        /\ RLt(Dec(115, 100), CoolingRatio) => manualSResult.status = "Fail: Oversized"
        /\ manualSResult.status = "Warning: SHR Mismatch" =>
            CoolingRatioInWindow /\ RLt(SensibleRatio, R(1))

\* the load and equipment of the ratio example
IsRatioExample ==
    /\ sLoad = [sensible |-> R(750), total |-> R(1000), heating |-> R(800)]
    /\ sEquipment = [sensible |-> R(800), total |-> R(1000), heating |-> R(900)]

\* C10 as stated: for a cooling ratio in [0.95, 1.15] and a sensible ratio of at
\* least 1.0 the status is 'Pass'; the example reports its ratios equipment /
\* load as cooling ratio 1.00 and heating ratio 1.125, with status 'Pass'.
C10_PassWithExactRatios ==
    manualSResult # None =>
        /\ (CoolingRatioInWindow /\ RLe(R(1), SensibleRatio)) =>
            manualSResult.status = "Pass"
        /\ IsRatioExample =>
            /\ manualSResult.status = "Pass"
            /\ manualSResult.totalCapacityRatio = CoolingRatio
            /\ manualSResult.totalCapacityRatio = R(1)
            /\ manualSResult.heatingCapacityRatio = HeatingRatio
            /\ manualSResult.heatingCapacityRatio = Dec(1125, 1000)

\* C10, amended: for a cooling ratio in [0.95, 1.15] and a sensible ratio of at
\* least 1.0 the ManualSResult status is 'Pass' and its reported ratios are
\* equipment / load rounded to two decimals; the example reports cooling ratio
\* 1.00, heating ratio 1.13 and 'Pass' there, while the SizingCompliance variant
\* reports the unrounded ratios 1 and 1.125 with status 'OPTIMAL' and
\* isCompliant true.
C10_PassWithRoundedRatios ==
    /\ manualSResult # None =>
        /\ (CoolingRatioInWindow /\ RLe(R(1), SensibleRatio)) =>
            /\ manualSResult.status = "Pass"
            /\ manualSResult.totalCapacityRatio = ParseFloatToFixed(CoolingRatio, 2)
            /\ manualSResult.sensibleCapacityRatio = ParseFloatToFixed(SensibleRatio, 2)
            /\ manualSResult.heatingCapacityRatio = ParseFloatToFixed(HeatingRatio, 2)
        /\ IsRatioExample =>
            /\ manualSResult.status = "Pass"
            /\ manualSResult.totalCapacityRatio = R(1)
            /\ manualSResult.heatingCapacityRatio = Dec(113, 100)
    /\ (sCompliance # None /\ IsRatioExample) =>
        /\ sCompliance.coolingRatio = R(1)
        /\ sCompliance.heatingRatio = Dec(1125, 1000)
        /\ sCompliance.status = "OPTIMAL"
        /\ sCompliance.isCompliant

C10_Witness ==
    /\ IsRatioExample
    /\ manualSResult # None
    /\ sCompliance # None
    /\ manualSResult.status = "Pass"

\* C11: no verifySelection variant reports a compliant result (status 'Pass'
\* in the ManualSResult variant, isCompliant true in the SizingCompliance
\* variant) when the heating ratio equipment.heating / load.heating is below
\* 1.0.  Stated for non-zero design loads, where every ratio is a finite number.
C11_NoComplianceWithUndersizedHeating ==
    (RLt(HeatingRatio, R(1)) /\ sLoad.total # R(0) /\ sLoad.sensible # R(0)) =>
        /\ manualSResult # None => manualSResult.status # "Pass"
        /\ sCompliance # None => ~sCompliance.isCompliant

\* the ratios reported by the two variants
ManualSRatios ==
    { manualSResult.totalCapacityRatio, manualSResult.sensibleCapacityRatio,
      manualSResult.heatingCapacityRatio }

SizingComplianceRatios ==
    { sCompliance.coolingRatio, sCompliance.heatingRatio,
      sCompliance.coolingCompliance, sCompliance.sensibleCompliance,
      sCompliance.heatingCompliance }

HasZeroLoad == sLoad.total = R(0) \/ sLoad.sensible = R(0) \/ sLoad.heating = R(0)

\* C12: for a load whose total cooling, sensible cooling or heating load is 0,
\* every ratio either verifySelection variant reports is a finite number,
\* never Infinity or NaN.
C12_ZeroLoadRatiosFinite ==
    HasZeroLoad =>
        /\ manualSResult # None => \A r \in ManualSRatios : IsFinite(r)
        /\ sCompliance # None => \A r \in SizingComplianceRatios : IsFinite(r)

(***************************************************************************)
(* Properties of the duct design (specification SpecD)                     *)
(***************************************************************************)
\* C13: every branch returned by designSystem has roundSize >= 5, for every
\* room list with airflows >= 0, trivial airflows such as 10 CFM included.
C13_MinimumDiameter ==
    ductSizing # None =>
        \A i \in 1..Len(ductSizing.branches) :
            RLe(R(5), ductSizing.branches[i].roundSize)

C13_Witness ==
    /\ ductSizing # None
    /\ \E i \in 1..Len(dRooms) :
        /\ dRooms[i] = [name |-> "Closet", cfm |-> R(10)]
        /\ ductSizing.branches[i].roundSize = R(5)

\* C14: for two room airflows 0 <= cfm1 <= cfm2 the roundSize assigned to the
\* room with cfm2 is never smaller than the one assigned to the room with cfm1.
C14_DiameterMonotone ==
    ductSizing # None =>
        \A i, j \in 1..Len(dRooms) :
            RLe(dRooms[i].cfm, dRooms[j].cfm) =>
                RLe(ductSizing.branches[i].roundSize, ductSizing.branches[j].roundSize)

C14_Witness ==
    /\ ductSizing # None
    /\ \E i, j \in 1..Len(dRooms) :
        /\ RLt(dRooms[i].cfm, dRooms[j].cfm)
        /\ RLt(R(5), ductSizing.branches[i].roundSize)
        /\ RLt(ductSizing.branches[i].roundSize, ductSizing.branches[j].roundSize)

(***************************************************************************)
(* Properties of the terminal selection (specification SpecT)              *)
(***************************************************************************)
IsGreatRoomExample ==
    tCall = [roomName |-> "Great Room", cfm |-> R(400), area |-> R(300)]

\* C15: registerCount is max(1, ceil(cfm / 180)), the least positive number of
\* registers whose per-register airflow does not exceed 180 CFM, and
\* cfmPerRegister x registerCount equals cfm up to the rounding of
\* cfmPerRegister; ('Great Room', 400, 300) gives registerCount 3,
\* cfmPerRegister 133 and estimatedThrow 13.
C15_RegisterCount ==
    terminalSelection # None =>
        /\ terminalSelection.registerCount >= 1
        /\ RLe(RDiv(tCall.cfm, R(terminalSelection.registerCount)), R(180))
        /\ terminalSelection.registerCount > 1 =>
            RLt(R(180), RDiv(tCall.cfm, R(terminalSelection.registerCount - 1)))
        /\ RLe(RSub(R(2 * terminalSelection.cfmPerRegister * terminalSelection.registerCount),
                    RMul(R(2), tCall.cfm)),
               R(terminalSelection.registerCount))
        /\ RLe(RSub(RMul(R(2), tCall.cfm),
                    R(2 * terminalSelection.cfmPerRegister * terminalSelection.registerCount)),
               R(terminalSelection.registerCount))
        /\ IsGreatRoomExample =>
            /\ terminalSelection.registerCount = 3
            /\ terminalSelection.cfmPerRegister = 133
            /\ terminalSelection.estimatedThrow = 13

C15_Witness ==
    /\ IsGreatRoomExample
    /\ terminalSelection # None
    /\ terminalSelection.registerCount = 3

(***************************************************************************)
(* Properties of the solar gain lookup (specification SpecG)               *)
(***************************************************************************)
\* clamp(round(latitude / 10) x 10, 30, 50), by the latitude bands it makes
BucketOfLatitude ==
    IF RLt(gLatitude, R(35)) THEN 30 ELSE IF RLt(gLatitude, R(45)) THEN 40 ELSE 50

\* C16: getSolarGainFactor returns the SOLAR_PEAK_GAINS entry of the bucket
\* clamp(round(latitude / 10) x 10, 30, 50) when orientation is one of N, NE,
\* E, SE, S, SW, W, NW, Horizontal, and the number 50 for every other
\* orientation string.
C16_SolarGainFactor ==
    solarGainFactor # None =>
        IF gOrientation \in CompassOrientations
        THEN solarGainFactor = R(SOLAR_PEAK_GAINS[BucketOfLatitude][gOrientation])
        ELSE solarGainFactor = R(50)

(***************************************************************************)
(* Properties of withRetry (specification SpecR)                           *)
(***************************************************************************)
Rejections == {i \in 1..Len(rOutcomes) : rOutcomes[i] = "rejected"}

StageFailed == pStage = "done" /\ pError # None

\* C17: when a stage fails (no images, the vision stage throws or yields no
\* rooms), execute returns a partial ProjectState with status 'ERROR' whose
\* metadata.pipelineMetrics has pipelineStatus 'FAILED' and the error recorded,
\* instead of propagating the exception.
C17_ErrorRecovery ==
    StageFailed =>
        /\ "returned" \in DOMAIN pOutcome
        /\ pOutcome.returned = ErrorProjectState(pProjectId, pMetrics)
        /\ pOutcome.returned.status = "ERROR"
        /\ pOutcome.returned.metadata.pipelineMetrics.pipelineStatus = "FAILED"
        /\ Len(pOutcome.returned.metadata.pipelineMetrics.errors) > 0

(***************************************************************************)
(* Properties of the infiltration block of the load engine (specification  *)
(* Spec)                                                                   *)
(***************************************************************************)
\* the 'Infiltration' line of the returned breakdown
InfiltrationLine ==
    systemJResult.breakdown[CHOOSE j \in 1..Len(systemJResult.breakdown) :
                                systemJResult.breakdown[j].component = "Infiltration"]

\* the heating infiltration load, as rounded into the breakdown, for an airflow
\* and a sensible factor
InfiltrationHeating(cfm, sensibleFactor) ==
    Round(RMul(RMul(cfm, sensibleFactor), HeatingDeltaT(mjInput.design)))

\* C19: with method 'ACH' the airflow used is (value x volume) / 60, and with
\* method 'CFM' it is infiltration.value itself with no scaling, so the heating
\* infiltration load of a CFM-method value v is that of an airflow of v.
C19_InfiltrationAirflow ==
    Calculated =>
        InfiltrationLine.heating =
            InfiltrationHeating(
                IF mjInput.infiltration.method = "ACH"
                THEN RDiv(RMul(mjInput.infiltration.value, mjInput.infiltration.volume), R(60))
                ELSE mjInput.infiltration.value,
                PSYCH.SENSIBLE_FACTOR)

\* an input with no surfaces and ducts in the conditioned space: its loads are
\* the infiltration and internal loads alone
InfiltrationOnly ==
    Len(mjInput.surfaces) = 0 /\ mjInput.ducts.location = "conditioned"

\* max(0, outdoorTempSummer x 1.4 - 10 - 65)
GrainsOfClaim ==
    RMax(R(0), RSub(RSub(RMul(mjInput.design.outdoorTempSummer, Dec(14, 10)), R(10)), R(65)))

\* C20: the sensible infiltration load is cfm x 1.08 x dT_heat for heating and
\* cfm x 1.08 x dT_cool for cooling, and the latent infiltration load is
\* cfm x 0.68 x max(0, outdoorTempSummer x 1.4 - 10 - 65), for the airflow cfm
\* the engine uses.
C20_InfiltrationFactors ==
    Calculated =>
        /\ InfiltrationLine.heating =
            InfiltrationHeating(InfiltrationCFM(mjInput.infiltration), Dec(108, 100))
        /\ InfiltrationOnly =>
            /\ systemJResult.coolingSensible =
                Round(RAdd(RMul(RMul(InfiltrationCFM(mjInput.infiltration), Dec(108, 100)),
                                CoolingDeltaT(mjInput.design)),
                           RAdd(RMul(mjInput.internals.occupants, R(230)),
                                mjInput.internals.applianceSensible)))
            /\ systemJResult.coolingLatent =
                Round(RAdd(RMul(RMul(InfiltrationCFM(mjInput.infiltration), Dec(68, 100)),
                                GrainsOfClaim),
                           RAdd(RMul(mjInput.internals.occupants, R(200)),
                                mjInput.internals.applianceLatent)))

(***************************************************************************)
(* Properties of the surface loop of the load engine (specification Spec)  *)
(***************************************************************************)
\* the line of the returned breakdown for a component name
BreakdownLine(name) ==
    systemJResult.breakdown[CHOOSE j \in 1..Len(systemJResult.breakdown) :
                                systemJResult.breakdown[j].component = name]

\* surface i is the only surface of the input with its name, so that its
\* breakdown line holds its contribution alone
OnlySurfaceOfItsName(i) ==
    \A j \in 1..Len(mjInput.surfaces) :
        mjInput.surfaces[j].name = mjInput.surfaces[i].name => j = i

\* a window that has a solar gain: one with an shgc and an orientation
HasSolarGain(surf) ==
    surf.type = "window" /\ Truthy(Get(surf, "shgc")) /\ GetStr(surf, "orientation") # ""

\* area x shgc x PSHGF(latitude, orientation) x shading
SolarGainWith(surf, shading) ==
    RMul(RMul(RMul(surf.area, surf.shgc),
              getSolarGainFactor(mjInput.design.latitude, surf.orientation)),
         shading)

\* C21: for every surface that carries an explicit cltd, whatever its type, the
\* transmission part of its cooling contribution is uValue x area x cltd; a
\* window's solar gain, taken here as the engine computes it, comes on top.
C21_CltdOverride ==
    Calculated =>
        \A i \in 1..Len(mjInput.surfaces) :
            LET surf == mjInput.surfaces[i] IN
            (Get(surf, "cltd") # Undefined /\ OnlySurfaceOfItsName(i)) =>
                BreakdownLine(surf.name).cooling =
                    Round(RAdd(RMul(RMul(surf.uValue, surf.area), surf.cltd),
                               IF HasSolarGain(surf)
                               THEN SolarGainWith(surf,
                                        OrElse(Get(surf, "internalShading"), R(1)))
                               ELSE R(0)))

\* C22: a window's solar gain is area x shgc x PSHGF x internalShading for
\* every supplied internalShading, 1.0 being used only when the field is
\* absent; the transmission part is taken here as the engine computes it.
C22_InternalShading ==
    Calculated =>
        \A i \in 1..Len(mjInput.surfaces) :
            LET surf == mjInput.surfaces[i] IN
            (HasSolarGain(surf) /\ OnlySurfaceOfItsName(i)) =>
                BreakdownLine(surf.name).cooling =
                    Round(RAdd(RMul(RMul(surf.uValue, surf.area),
                                    CoolingDeltaT(mjInput.design)),
                               SolarGainWith(surf,
                                   IF Get(surf, "internalShading") = Undefined
                                   THEN R(1)
                                   ELSE surf.internalShading)))

(***************************************************************************)
(* Further properties of the duct design (specification SpecD)             *)
(***************************************************************************)
\* C23: for every returned branch of a room with cfm > 0, the reported velocity
\* is round(cfm / (pi x (roundSize / 2 / 12)^2)) for the branch's own reported
\* roundSize, branches raised to the 5 inch minimum included.
C23_VelocityOfReportedSize ==
    ductSizing # None =>
        \A i \in 1..Len(dRooms) :
            RLt(R(0), dRooms[i].cfm) =>
                ductSizing.branches[i].velocity =
                    MathRound(Velocity(dRooms[i].cfm,
                                       AreaSqFt(ductSizing.branches[i].roundSize)))

\* the sum of the cfm fields of the returned branches, from branch i on
RECURSIVE SumBranchCFM(_, _)
SumBranchCFM(branches, i) ==
    IF i > Len(branches) THEN 0 ELSE branches[i].cfm + SumBranchCFM(branches, i + 1)

\* C24: the returned totalCFM is the sum of the cfm fields of the returned
\* branches, fractional room airflows included, and branches has one entry per
\* room, in input order.
C24_TotalIsSumOfBranches ==
    ductSizing # None =>
        /\ ductSizing.totalCFM = SumBranchCFM(ductSizing.branches, 1)
        /\ Len(ductSizing.branches) = Len(dRooms)
        /\ \A i \in 1..Len(dRooms) : ductSizing.branches[i].name = dRooms[i].name

(***************************************************************************)
(* Properties of the returned breakdown (specifications SpecB and Spec)    *)
(***************************************************************************)
\* the sum of the heating column of a breakdown, from line i on
RECURSIVE SumHeatingColumn(_, _)
SumHeatingColumn(breakdown, i) ==
    IF i > Len(breakdown) THEN 0
    ELSE breakdown[i].heating + SumHeatingColumn(breakdown, i + 1)

\* C25: the sum of the heating column of the returned breakdown differs from
\* heatingLoad by at most 1 per breakdown line item, for every input, several
\* surfaces sharing one name (merged into one line item) included.
C25_HeatingColumnSum ==
    Calculated =>
        Abs(SumHeatingColumn(systemJResult.breakdown, 1) - systemJResult.heatingLoad)
            <= Len(systemJResult.breakdown)

\* the running output of calculate before the duct block
BeforeDucts ==
    InternalGains(
        InfiltrationLoads(
            SurfaceLoop(mjInput.surfaces, 1, mjInput.design,
                        HeatingDeltaT(mjInput.design), CoolingDeltaT(mjInput.design),
                        EmptyOutput),
            InfiltrationCFM(mjInput.infiltration), mjInput.design,
            HeatingDeltaT(mjInput.design), CoolingDeltaT(mjInput.design)),
        mjInput.internals)

\* some line of the returned breakdown, named by one of names, has a non-zero
\* cooling value
HasCoolingLine(names) ==
    \E j \in 1..Len(systemJResult.breakdown) :
        /\ systemJResult.breakdown[j].component \in names
        /\ systemJResult.breakdown[j].cooling # 0

\* C26: the returned breakdown carries every evaluated contribution: whenever
\* the cooling amount of infiltration, of the internal gains or (ducts outside
\* the conditioned space) of the duct gain is non-zero, some breakdown line of
\* that contribution has a non-zero cooling value.
C26_BreakdownComplete ==
    Calculated =>
        /\ (\/ Round(RMul(RMul(InfiltrationCFM(mjInput.infiltration), PSYCH.SENSIBLE_FACTOR),
                          CoolingDeltaT(mjInput.design))) # 0
            \/ Round(RMul(RMul(InfiltrationCFM(mjInput.infiltration), PSYCH.LATENT_FACTOR),
                          calculateGrainsDiff(mjInput.design))) # 0)
           => HasCoolingLine({"Infiltration", "Infiltration Sensible", "Infiltration Latent"})
        /\ Round(RAdd(RMul(mjInput.internals.occupants, R(230)),
                      mjInput.internals.applianceSensible)) # 0
           => HasCoolingLine({"Internals"})
        /\ (/\ mjInput.ducts.location # "conditioned"
            /\ Round(DuctCool(BeforeDucts.coolingSensible)) # 0)
           => HasCoolingLine({"Duct Loss", "Duct Gain"})

(***************************************************************************)
(* Properties of the orientation sweep (specification Spec)                *)
(***************************************************************************)
\* C28: the output of calculate does not depend on design.orientation, only on
\* each window's own orientation: every one of the 8 rows returned by
\* calculateMultiOrientation carries the sensible, latent, total, heatingCFM
\* and coolingCFM values that calculate returns for the input as given, so
\* all the rows carry identical values.
C28_OrientationNonInterference ==
    stage = "simulated" =>
        \A i \in 1..Len(multiOrientationResult) :
            /\ multiOrientationResult[i].sensible = systemJResult.coolingSensible
            /\ multiOrientationResult[i].latent = systemJResult.coolingLatent
            /\ multiOrientationResult[i].total = systemJResult.totalCooling
            /\ multiOrientationResult[i].heatingCFM = systemJResult.heatingCFM
            /\ multiOrientationResult[i].coolingCFM = systemJResult.coolingCFM

\* a sweep over a building with a window that has a solar gain, whose rows
\* are for directions other than the window's own and the building's
C28_Witness ==
    /\ stage = "simulated"
    /\ \E i \in 1..Len(mjInput.surfaces) :
        /\ HasSolarGain(mjInput.surfaces[i])
        /\ mjInput.surfaces[i].orientation # mjInput.design.orientation
    /\ multiOrientationResult[1].direction = "N"
    /\ multiOrientationResult[8].direction = "NW"
    /\ multiOrientationResult[1].sensible > 0
    /\ multiOrientationResult[1].latent > 0

(***************************************************************************)
(* Properties of the excursion verdict (specification Spec)                *)
(***************************************************************************)
\* windowArea * windowSHGC * solarFactor of the input
PeakGlassLoadOfInput ==
    PeakGlassLoad(SelectSeq(mjInput.surfaces, IsWindow), mjInput.design)

\* the excursion of the half-sine curve itself: (peak - mean) / mean x 100
\* over its 24 samples, to one decimal
CurveExcursion ==
    LET curve == [h \in 1..24 |-> sunIntensity(h - 1)]
    IN  ParseFloatToFixed(
            ExcursionPercent(SeqMax(curve, 1, 24), RDiv(SeqSum(curve, 1, 24), R(24))), 1)

C27_EnvelopeCoolingTotalIdentity ==
    eResult # None =>
        /\ eResult.coolingSensible \in Int
        /\ eResult.coolingLatent \in Int
        /\ eResult.totalCooling = eResult.coolingSensible + eResult.coolingLatent

(***************************************************************************)
(* Further properties of the enhanced pipeline (specification SpecP)       *)
(***************************************************************************)
\* C30: every ProjectState that execute returns passes validateProjectState:
\* it has a non-empty id, at least one room and status 'COMPLETE', and every
\* room has a non-empty id and name and an area > 0, for any vision result,
\* bounding boxes whose corners are not ordered included.
C30_ReturnedStateIsValid ==
    (pStage = "done" /\ "returned" \in DOMAIN pOutcome) =>
        /\ validateProjectState(pOutcome.returned).valid
        /\ pOutcome.returned.id # ""
        /\ pOutcome.returned.status = "COMPLETE"
        /\ Len(pOutcome.returned.rooms) > 0
        /\ \A i \in 1..Len(pOutcome.returned.rooms) :
            /\ pOutcome.returned.rooms[i].id # ""
            /\ pOutcome.returned.rooms[i].name # ""
            /\ RLt(R(0), pOutcome.returned.rooms[i].area)

====
